---- MODULE Spec2Model ----
(***************************************************************************)
(* Claw of Chronos: the ledger contract (contracts/src/ChronosCore.sol),   *)
(* the relay's chain poller and task cache (relay/src/chain.ts) and the    *)
(* relay's query routes (relay/src/routes.ts).                             *)
(*                                                                         *)
(* The ledger is the source of the event log the relay mirrors.  Every     *)
(* successful transaction is mined in a block of its own; the events it    *)
(* emits carry that block's number.  Time is in seconds; CHRN amounts are  *)
(* in whole tokens (1 token = 1e18 base units).                            *)
(***************************************************************************)
EXTENDS Integers, Sequences, FiniteSets, TLC

\* ---------------------------------------------------------------- bounds
\* Tasks the ledger has room for.
MaxTasks == 2
\* CHRN the creator holds and has approved to the ledger at the start
CreatorFunds == 6000
\* Tasks the creator opens where one task is followed.
MaxSoloTasks == 1
\* The clock stops here.
MaxTime == 300
\* The clock stops here while tasks fill (SpecOpen).
MaxOpenTime == 180
\* Seconds that pass in one step of the clock.
TimeStep == 60
\* Blocks mined while one step of the clock passes.
BlocksPerStep == 101
\* Ledger RPC calls of the relay that may fail.
MaxFailures == 2
\* Invocations of poll() that can be suspended at once.
MaxTicks == 2
\* POST handlers that can be suspended at once.
MaxPosts == 2
\* Seconds that pass in one step of the clock of SpecRate.
RateStep == 30
\* The clock of SpecRate stops here.
MaxRateTime == 150
\* Posts one rate bucket counts in SpecRate.
MaxCounted == 22
\* Posts one rate bucket counts in SpecCap.
MaxCapCounted == 2
\* Messages of the member that SpecForge stores.
MaxOwnPosts == 2
\* Messages of task 0 in the file the relay of SpecCap loads.
StoredBefore == 499

\* ------------------------------------------------------- input domains
Creator == "C1"
Agents == {"A1", "A2"}
ZeroAddress == "0x0"
OptionLists == {<<"Yes", "No">>}
RequiredAgentsInputs == {1}
\* The agents that call joinTask.
Joiners == {"A1"}
\* The accounts that call the ledger when it is checked by itself.
Voters == {"A1", "A2", "A3"}
\* The order they join in (the ledger treats addresses alike).
VoterOrder == <<"A1", "A2", "A3">>
\* address(this) of ChronosCore
Core == "core"
Accounts == Voters \cup {Creator, Core}
VoterOptionLists == {<<"X", "Y", "Z">>}
VoterRequiredAgents == {3}
DurationInputs == {60}
Salts == {"s1"}
Description == "d"

\* ----------------------------------------------------- ledger constants
Open == 0
Deliberation == 1
Commit == 2
Reveal == 3
Resolved == 4

BOUNTY_PER_AGENT == 1000
COMMIT_DURATION == 60
REVEAL_DURATION == 60

TaskIds == 0 .. (MaxTasks - 1)

VARIABLES
  now,            \* block.timestamp of the next block; the relay's Date.now()/1000
  height,         \* the chain's block number
  chainLog,       \* the contract's event log, in chain order
  taskCount,      \* ChronosCore.taskCount
  ltasks,         \* ChronosCore._tasks
  taskAgents,     \* ChronosCore.taskAgents
  isAgent,        \* ChronosCore.isAgent
  commits,        \* ChronosCore.commits
  revealed,       \* ChronosCore.revealed
  votes,          \* ChronosCore.votes
  optionVotes,    \* ChronosCore.optionVotes
  revealCount,    \* ChronosCore.revealCount
  eligibleCount,  \* ChronosCore.eligibleCount
  claimed,        \* ChronosCore.claimed
  balanceOf       \* the CHRN token's balances

VARIABLES
  tasks,      \* the task cache: Map<number, CachedTask>
  lastBlock,  \* the last block whose logs were applied
  polling,    \* the re-entrancy flag of poll()
  startup,    \* startPoller/hydrateFromContract: where it is suspended, its locals
  ticks,      \* the invocations of poll(): where each is suspended, its locals
  pollLog,    \* how the last finished poll() ended, and the error it logged
  failures,   \* ledger RPC calls that have failed so far
  messages,   \* the message store: Map<number, Message[]>
  disk,       \* the file at STORE_PATH: the store as last persisted
  rateBuckets,\* the rate limiter: Map<string, {count, resetAt}>
  posts,      \* the POST handlers: where each is suspended, its locals
  resp        \* the HTTP response the running route handler is sending

relayVars == <<tasks, lastBlock, polling, startup, ticks, pollLog, failures>>
ledgerVars == <<taskCount, ltasks, taskAgents, isAgent, commits, revealed,
                votes, optionVotes, revealCount, eligibleCount, claimed,
                balanceOf>>
chainVars == <<now, height, chainLog>>
\* What no step of the relay changes.
storeVars == <<messages, disk, rateBuckets>>
postVars == <<storeVars, posts>>
world == <<chainVars, ledgerVars, postVars>>

\* resp holds a response only in the state its route handler leaves: the
\* handler runs to its end in one turn, and every other step finds none.
NoResponse == [route |-> "", status |-> 0, body |-> <<>>]
NoRequest == resp' = NoResponse

ZeroTask ==
  [creator |-> ZeroAddress, description |-> "", options |-> <<>>,
   requiredAgents |-> 0, deliberationDuration |-> 0, bounty |-> 0,
   deliberationStart |-> 0, phase |-> Open, resolved |-> FALSE,
   cancelled |-> FALSE, winningOption |-> 0, isTie |-> FALSE]

NoCommit == <<>>
\* keccak256(abi.encodePacked(taskId, optionIndex, salt)): injective on its inputs.
keccak256(taskId, optionIndex, salt) == <<taskId, optionIndex, salt>>

\* ------------------------------------------------------------ event log
NoArgs ==
  [agent |-> ZeroAddress, creator |-> ZeroAddress, description |-> "",
   options |-> <<>>, bounty |-> 0, requiredAgents |-> 0,
   deliberationDuration |-> 0, deliberationStart |-> 0, phase |-> 0,
   optionIndex |-> 0, winningOption |-> 0, isTie |-> FALSE, refund |-> 0]

\* One log entry of the transaction being mined (block height + 1).
Emit(name, id, args) ==
  [eventName |-> name, blockNumber |-> height + 1, taskId |-> id,
   decoded |-> TRUE] @@ args @@ NoArgs

\* ---------------------------------------------------------- ledger views
\* A variant whose reveal window never closes.
PhaseWithoutEnd(t, time) ==
  IF t.resolved \/ t.cancelled THEN Resolved
  ELSE IF t.deliberationStart = 0 THEN Open
  ELSE LET delibEnd == t.deliberationStart + t.deliberationDuration
           commitEnd == delibEnd + COMMIT_DURATION
           revealEnd == commitEnd + REVEAL_DURATION
       IN IF time >= revealEnd THEN Deliberation
          ELSE IF time >= commitEnd THEN Reveal
          ELSE IF time >= delibEnd THEN Commit
          ELSE Deliberation

\* _currentPhase with block.timestamp = time
_currentPhaseAt(t, time) ==
  IF t.resolved \/ t.cancelled THEN Resolved
  ELSE IF t.deliberationStart = 0 THEN Open
  ELSE LET delibEnd == t.deliberationStart + t.deliberationDuration
           commitEnd == delibEnd + COMMIT_DURATION
           revealEnd == commitEnd + REVEAL_DURATION
       IN IF time >= revealEnd THEN Resolved
          ELSE IF time >= commitEnd THEN Reveal
          ELSE IF time >= delibEnd THEN Commit
          ELSE Deliberation

_currentPhase(t) == _currentPhaseAt(t, now)

\* _syncPhase: the task after the sync, and the events the sync emits.
SyncedTask(id) == [ltasks[id] EXCEPT !.phase = _currentPhase(ltasks[id])]
\* A variant that emits PhaseAdvanced at every sync of a started task.
SyncEventsAlways(id) ==
  IF ltasks[id].deliberationStart # 0
  THEN <<Emit("PhaseAdvanced", id, [phase |-> _currentPhase(ltasks[id])])>>
  ELSE <<>>

SyncEvents(id) ==
  IF _currentPhase(ltasks[id]) # ltasks[id].phase
  THEN <<Emit("PhaseAdvanced", id, [phase |-> _currentPhase(ltasks[id])])>>
  ELSE <<>>

\* A mined transaction: one block, its events appended to the log.
Mine(events) ==
  /\ height' = height + 1
  /\ chainLog' = chainLog \o events
  /\ now' = now
  /\ UNCHANGED <<relayVars, postVars>>
  /\ NoRequest

\* ------------------------------------------------------------ the token
\* IERC20.transfer / transferFrom: the balances after amount moves.
transfer(from, to, amount) ==
  [a \in Accounts |->
     IF a = from /\ a = to THEN balanceOf[a]
     ELSE IF a = from THEN balanceOf[a] - amount
     ELSE IF a = to THEN balanceOf[a] + amount
     ELSE balanceOf[a]]

\* -------------------------------------------------------- ledger: create
createTaskError(options, requiredAgents, deliberationDuration) ==
  IF Len(options) < 2 \/ Len(options) > 5 THEN "InvalidOptionCount"
  ELSE IF requiredAgents = 0 THEN "ZeroRequiredAgents"
  ELSE IF deliberationDuration = 0 THEN "ZeroDuration"
  ELSE "ok"

createTask(sender, description, options, requiredAgents, deliberationDuration) ==
  /\ taskCount < MaxTasks
  /\ createTaskError(options, requiredAgents, deliberationDuration) = "ok"
  /\ LET taskId == taskCount
         bounty == requiredAgents * BOUNTY_PER_AGENT
     IN /\ balanceOf[sender] >= bounty
        /\ balanceOf' = transfer(sender, Core, bounty)
        /\ taskCount' = taskCount + 1
        /\ ltasks' = [ltasks EXCEPT ![taskId] =
              [ZeroTask EXCEPT !.creator = sender, !.description = description,
                 !.options = options, !.requiredAgents = requiredAgents,
                 !.deliberationDuration = deliberationDuration,
                 !.bounty = bounty, !.phase = Open]]
        /\ Mine(<<Emit("TaskCreated", taskId,
                   [creator |-> sender, description |-> description,
                    options |-> options, bounty |-> bounty,
                    requiredAgents |-> requiredAgents,
                    deliberationDuration |-> deliberationDuration])>>)
  /\ UNCHANGED <<taskAgents, isAgent, commits, revealed, votes, optionVotes,
                 revealCount, eligibleCount, claimed>>

\* ---------------------------------------------------------- ledger: join
\* A variant without the membership test.
joinTaskErrorAgain(taskId, sender) ==
  LET t == ltasks[taskId] IN
  IF t.cancelled THEN "TaskIsCancelled"
  ELSE IF t.deliberationStart # 0 THEN "WrongPhase"
  ELSE IF Len(taskAgents[taskId]) >= t.requiredAgents THEN "TaskFull"
  ELSE "ok"

joinTaskError(taskId, sender) ==
  LET t == ltasks[taskId] IN
  IF t.cancelled THEN "TaskIsCancelled"
  ELSE IF t.deliberationStart # 0 THEN "WrongPhase"
  ELSE IF Len(taskAgents[taskId]) >= t.requiredAgents THEN "TaskFull"
  ELSE IF isAgent[taskId][sender] THEN "AlreadyJoined"
  ELSE "ok"

joinTask(taskId, sender) ==
  /\ joinTaskError(taskId, sender) = "ok"
  /\ isAgent' = [isAgent EXCEPT ![taskId][sender] = TRUE]
  /\ taskAgents' = [taskAgents EXCEPT ![taskId] = Append(@, sender)]
  /\ LET t == ltasks[taskId]
         full == Len(taskAgents'[taskId]) = t.requiredAgents
     IN /\ ltasks' = IF full
                     THEN [ltasks EXCEPT ![taskId].deliberationStart = now,
                                         ![taskId].phase = Deliberation]
                     ELSE ltasks
        /\ Mine(<<Emit("AgentJoined", taskId, [agent |-> sender])>>
                \o (IF full
                    THEN <<Emit("TaskStarted", taskId, [deliberationStart |-> now]),
                           Emit("PhaseAdvanced", taskId, [phase |-> Deliberation])>>
                    ELSE <<>>))
  /\ UNCHANGED <<taskCount, commits, revealed, votes, optionVotes,
                 revealCount, eligibleCount, claimed, balanceOf>>

\* -------------------------------------------------------- ledger: cancel
\* A variant that lets the creator cancel a started task.
cancelTaskErrorLate(taskId, sender) ==
  LET t == ltasks[taskId] IN
  IF sender # t.creator THEN "NotCreator"
  ELSE IF t.cancelled THEN "WrongPhase"
  ELSE "ok"

cancelTaskError(taskId, sender) ==
  LET t == ltasks[taskId] IN
  IF sender # t.creator THEN "NotCreator"
  ELSE IF t.deliberationStart # 0 THEN "WrongPhase"
  ELSE IF t.cancelled THEN "WrongPhase"
  ELSE "ok"

cancelTask(taskId, sender) ==
  /\ cancelTaskError(taskId, sender) = "ok"
  /\ ltasks' = [ltasks EXCEPT ![taskId].cancelled = TRUE,
                              ![taskId].phase = Resolved]
  /\ balanceOf' = transfer(Core, ltasks[taskId].creator, ltasks[taskId].bounty)
  /\ Mine(<<Emit("TaskCancelled", taskId,
             [creator |-> ltasks[taskId].creator,
              refund |-> ltasks[taskId].bounty])>>)
  /\ UNCHANGED <<taskCount, taskAgents, isAgent, commits, revealed, votes,
                 optionVotes, revealCount, eligibleCount, claimed>>

\* -------------------------------------------------------- ledger: commit
\* A variant that takes commits from the start of deliberation.
commitErrorFromStart(taskId, sender) ==
  IF SyncedTask(taskId).phase \notin {Deliberation, Commit} THEN "WrongPhase"
  ELSE IF ~isAgent[taskId][sender] THEN "NotAgent"
  ELSE IF commits[taskId][sender] # NoCommit THEN "AlreadyCommitted"
  ELSE "ok"

commitError(taskId, sender) ==
  IF SyncedTask(taskId).phase # Commit THEN "WrongPhase"
  ELSE IF ~isAgent[taskId][sender] THEN "NotAgent"
  ELSE IF commits[taskId][sender] # NoCommit THEN "AlreadyCommitted"
  ELSE "ok"

commit(taskId, sender, commitHash) ==
  /\ commitError(taskId, sender) = "ok"
  /\ ltasks' = [ltasks EXCEPT ![taskId] = SyncedTask(taskId)]
  /\ commits' = [commits EXCEPT ![taskId][sender] = commitHash]
  /\ Mine(SyncEvents(taskId)
          \o <<Emit("CommitSubmitted", taskId, [agent |-> sender])>>)
  /\ UNCHANGED <<taskCount, taskAgents, isAgent, revealed, votes, optionVotes,
                 revealCount, eligibleCount, claimed, balanceOf>>

\* -------------------------------------------------------- ledger: reveal
\* A variant without the bound on optionIndex.
revealErrorAnyIndex(taskId, sender, optionIndex, salt) ==
  IF SyncedTask(taskId).phase # Reveal THEN "WrongPhase"
  ELSE IF ~isAgent[taskId][sender] THEN "NotAgent"
  ELSE IF revealed[taskId][sender] THEN "AlreadyRevealed"
  ELSE IF commits[taskId][sender] # keccak256(taskId, optionIndex, salt)
    THEN "InvalidReveal"
  ELSE "ok"

revealError(taskId, sender, optionIndex, salt) ==
  IF SyncedTask(taskId).phase # Reveal THEN "WrongPhase"
  ELSE IF ~isAgent[taskId][sender] THEN "NotAgent"
  ELSE IF revealed[taskId][sender] THEN "AlreadyRevealed"
  ELSE IF commits[taskId][sender] # keccak256(taskId, optionIndex, salt)
    THEN "InvalidReveal"
  ELSE IF optionIndex >= Len(ltasks[taskId].options) THEN "InvalidReveal"
  ELSE "ok"

reveal(taskId, sender, optionIndex, salt) ==
  /\ revealError(taskId, sender, optionIndex, salt) = "ok"
  /\ ltasks' = [ltasks EXCEPT ![taskId] = SyncedTask(taskId)]
  /\ revealed' = [revealed EXCEPT ![taskId][sender] = TRUE]
  /\ votes' = [votes EXCEPT ![taskId][sender] = optionIndex]
  /\ optionVotes' = [optionVotes EXCEPT ![taskId][optionIndex] = @ + 1]
  /\ revealCount' = [revealCount EXCEPT ![taskId] = @ + 1]
  /\ Mine(SyncEvents(taskId)
          \o <<Emit("RevealSubmitted", taskId,
                 [agent |-> sender, optionIndex |-> optionIndex])>>)
  /\ UNCHANGED <<taskCount, taskAgents, isAgent, commits, eligibleCount,
                 claimed, balanceOf>>

\* ------------------------------------------------------- ledger: resolve
resolveError(taskId) ==
  IF SyncedTask(taskId).phase # Resolved THEN "WrongPhase"
  ELSE IF ltasks[taskId].resolved THEN "WrongPhase"
  ELSE IF revealCount[taskId] = 0 THEN "NoReveals"
  ELSE "ok"

\* A variant of the tally loop in which an option that equals the running
\* maximum takes the lead.
RECURSIVE TallyLatest(_, _, _, _)
TallyLatest(taskId, i, n, acc) ==
  IF i >= n THEN acc
  ELSE LET v == optionVotes[taskId][i] IN
       TallyLatest(taskId, i + 1, n,
             IF v > acc.maxVotes
             THEN [maxVotes |-> v, winner |-> i, tie |-> FALSE]
             ELSE IF v = acc.maxVotes /\ v > 0
             THEN [acc EXCEPT !.tie = TRUE, !.winner = i]
             ELSE acc)

\* The tally loop of resolve over options i .. n-1, from the running
\* (maxVotes, winner, tie).
RECURSIVE Tally(_, _, _, _)
Tally(taskId, i, n, acc) ==
  IF i >= n THEN acc
  ELSE LET v == optionVotes[taskId][i] IN
       Tally(taskId, i + 1, n,
             IF v > acc.maxVotes
             THEN [maxVotes |-> v, winner |-> i, tie |-> FALSE]
             ELSE IF v = acc.maxVotes /\ v > 0
             THEN [acc EXCEPT !.tie = TRUE]
             ELSE acc)

TallyResult(taskId) ==
  Tally(taskId, 0, Len(ltasks[taskId].options),
        [maxVotes |-> 0, winner |-> 0, tie |-> FALSE])

_maxVoteCount(taskId) ==
  LET n == Len(ltasks[taskId].options)
      counts == {optionVotes[taskId][i] : i \in 0 .. (n - 1)} \cup {0}
  IN CHOOSE m \in counts : \A c \in counts : c <= m

\* A variant that counts the voters of the winning index only.
_countEligibleWinnerOnly(taskId, winner, tie, maxVotes) ==
  LET agents == taskAgents[taskId] IN
  Cardinality({i \in 1 .. Len(agents) :
     /\ revealed[taskId][agents[i]]
     /\ ~tie
     /\ votes[taskId][agents[i]] = winner})

_countEligible(taskId, winner, tie, maxVotes) ==
  LET agents == taskAgents[taskId] IN
  Cardinality({i \in 1 .. Len(agents) :
     /\ revealed[taskId][agents[i]]
     /\ LET opt == votes[taskId][agents[i]] IN
        IF tie THEN optionVotes[taskId][opt] = maxVotes ELSE opt = winner})

resolve(taskId) ==
  /\ resolveError(taskId) = "ok"
  /\ LET r == TallyResult(taskId) IN
     /\ ltasks' = [ltasks EXCEPT ![taskId] =
           [SyncedTask(taskId) EXCEPT !.winningOption = r.winner,
                                      !.isTie = r.tie, !.resolved = TRUE]]
     /\ eligibleCount' = [eligibleCount EXCEPT ![taskId] =
           _countEligible(taskId, r.winner, r.tie, r.maxVotes)]
     /\ Mine(SyncEvents(taskId)
             \o <<Emit("TaskResolved", taskId,
                    [winningOption |-> r.winner, isTie |-> r.tie])>>)
  /\ UNCHANGED <<taskCount, taskAgents, isAgent, commits, revealed, votes,
                 optionVotes, revealCount, claimed, balanceOf>>

\* --------------------------------------------------- ledger: claimBounty
\* eligible, as claimBounty computes it for the caller.
claimEligible(taskId, sender) ==
  LET t == ltasks[taskId]
      voterOption == votes[taskId][sender]
  IN IF t.isTie
     THEN optionVotes[taskId][voterOption] = _maxVoteCount(taskId)
     ELSE voterOption = t.winningOption

claimBountyError(taskId, sender) ==
  IF ~ltasks[taskId].resolved THEN "WrongPhase"
  ELSE IF ~revealed[taskId][sender] THEN "NotAgent"
  ELSE IF claimed[taskId][sender] THEN "AlreadyClaimed"
  ELSE IF ~claimEligible(taskId, sender) THEN "NotWinner"
  ELSE "ok"

\* A variant that pays the per-agent bounty whatever the number of winners.
claimShareFlat(taskId) == BOUNTY_PER_AGENT

\* share = t.bounty / eligibleCount[taskId]
claimShare(taskId) == ltasks[taskId].bounty \div eligibleCount[taskId]

\* BountyClaimed is not among the events the relay subscribes to.
\* A division by zero reverts the call.
claimBounty(taskId, sender) ==
  /\ claimBountyError(taskId, sender) = "ok"
  /\ eligibleCount[taskId] # 0
  /\ claimed' = [claimed EXCEPT ![taskId][sender] = TRUE]
  /\ balanceOf' = transfer(Core, sender, claimShare(taskId))
  /\ Mine(<<>>)
  /\ UNCHANGED <<taskCount, ltasks, taskAgents, isAgent, commits, revealed,
                 votes, optionVotes, revealCount, eligibleCount>>

\* -------------------------------------------------- ledger: claimExpired
\* A variant without the resolved test.
claimExpiredErrorAgain(taskId, sender) ==
  LET t == SyncedTask(taskId) IN
  IF sender # t.creator THEN "NotCreator"
  ELSE IF t.cancelled THEN "WrongPhase"
  ELSE IF ~(t.phase = Resolved /\ revealCount[taskId] = 0) THEN "TaskNotExpired"
  ELSE "ok"

claimExpiredError(taskId, sender) ==
  LET t == SyncedTask(taskId) IN
  IF sender # t.creator THEN "NotCreator"
  ELSE IF t.resolved THEN "WrongPhase"
  ELSE IF t.cancelled THEN "WrongPhase"
  ELSE IF ~(t.phase = Resolved /\ revealCount[taskId] = 0) THEN "TaskNotExpired"
  ELSE "ok"

\* TaskExpiredClaimed is not among the events the relay subscribes to.
claimExpired(taskId, sender) ==
  /\ claimExpiredError(taskId, sender) = "ok"
  /\ ltasks' = [ltasks EXCEPT ![taskId] =
        [SyncedTask(taskId) EXCEPT !.resolved = TRUE]]
  /\ balanceOf' = transfer(Core, ltasks[taskId].creator, ltasks[taskId].bounty)
  /\ Mine(SyncEvents(taskId))
  /\ UNCHANGED <<taskCount, taskAgents, isAgent, commits, revealed, votes,
                 optionVotes, revealCount, eligibleCount, claimed>>

\* -------------------------------------------------- ledger: advancePhase
\* A call that finds the stored phase current changes nothing and is left out.
advancePhase(taskId) ==
  /\ _currentPhase(ltasks[taskId]) # ltasks[taskId].phase
  /\ ltasks' = [ltasks EXCEPT ![taskId] = SyncedTask(taskId)]
  /\ Mine(SyncEvents(taskId))
  /\ UNCHANGED <<taskCount, taskAgents, isAgent, commits, revealed, votes,
                 optionVotes, revealCount, eligibleCount, claimed, balanceOf>>

\* ------------------------------------------------------------- the clock
PassTimeBy(step, blocks, maxTime) ==
  /\ now + step <= maxTime
  /\ now' = now + step
  /\ height' = height + blocks
  /\ UNCHANGED <<chainLog, ledgerVars, relayVars, postVars>>
  /\ NoRequest

PassTimeUntil(maxTime) == PassTimeBy(TimeStep, BlocksPerStep, maxTime)

PassTime == PassTimeUntil(MaxTime)

PassOpenTime == PassTimeUntil(MaxOpenTime)

\* ------------------------------------------------------ ledger: any call
ExistingTasks == 0 .. (taskCount - 1)

\* The calls, by any caller that passes the contract's checks.
CreateTasksFor(maxTasks, requiredAgentsInputs) ==
  /\ taskCount < maxTasks
  /\ \E o \in OptionLists, r \in requiredAgentsInputs, d \in DurationInputs :
       createTask(Creator, Description, o, r, d)

CreateTaskFor(requiredAgentsInputs) ==
  CreateTasksFor(MaxSoloTasks, requiredAgentsInputs)

CreateTask == CreateTaskFor(RequiredAgentsInputs)

JoinTaskBy(joiners) == \E id \in ExistingTasks, a \in joiners : joinTask(id, a)

JoinTask == JoinTaskBy(Joiners)

CancelTask == \E id \in ExistingTasks : cancelTask(id, Creator)

CommitVoteBy(agents) ==
  \E id \in ExistingTasks, a \in agents, s \in Salts :
    \E o \in 0 .. (Len(ltasks[id].options) - 1) :
      commit(id, a, keccak256(id, o, s))

CommitVote == CommitVoteBy(Agents)

RevealVoteBy(agents) ==
  \E id \in ExistingTasks, a \in agents, s \in Salts :
    \E o \in 0 .. (Len(ltasks[id].options) - 1) : reveal(id, a, o, s)

RevealVote == RevealVoteBy(Agents)

ClaimBountyBy(agents) ==
  \E id \in ExistingTasks, a \in agents : claimBounty(id, a)

Resolve == \E id \in ExistingTasks : resolve(id)

ClaimExpired == \E id \in ExistingTasks : claimExpired(id, Creator)

AdvancePhase == \E id \in ExistingTasks : advancePhase(id)

\* The log gets a TaskCreated entry whose data does not decode against the
\* relay's ABI: getLogs returns it with its indexed arguments only.
EmitUndecodable ==
  /\ \A k \in 1 .. Len(chainLog) : chainLog[k].decoded
  /\ Mine(<<[Emit("TaskCreated", taskCount, [creator |-> Creator])
              EXCEPT !.decoded = FALSE]>>)
  /\ UNCHANGED ledgerVars

\* The log gets a RevealSubmitted entry for an option the task does not
\* have.  ChronosCore.reveal reverts before it emits one; the entry comes
\* from whatever else answers getLogs for the configured address.
EmitRevealOutOfRange ==
  /\ \E id \in ExistingTasks, a \in Agents :
       /\ \A k \in 1 .. Len(chainLog) :
            chainLog[k].eventName # "RevealSubmitted"
       /\ Mine(<<Emit("RevealSubmitted", id,
                  [agent |-> a, optionIndex |-> Len(ltasks[id].options)])>>)
  /\ UNCHANGED ledgerVars

\* The log gets an AgentJoined entry for a task that is full, by an address
\* that has not joined.  ChronosCore.joinTask reverts before it emits one.
EmitJoinOfFullTask ==
  /\ \E id \in ExistingTasks, a \in Agents :
       /\ Len(taskAgents[id]) >= ltasks[id].requiredAgents
       /\ ~isAgent[id][a]
       /\ \A k \in 1 .. Len(chainLog) :
            chainLog[k].eventName = "AgentJoined" => isAgent[id][chainLog[k].agent]
       /\ Mine(<<Emit("AgentJoined", id, [agent |-> a])>>)
  /\ UNCHANGED ledgerVars

LedgerInit ==
  /\ now = TimeStep
  /\ height = 1
  /\ chainLog = <<>>
  /\ taskCount = 0
  /\ ltasks = [id \in TaskIds |-> ZeroTask]
  /\ taskAgents = [id \in TaskIds |-> <<>>]
  /\ isAgent = [id \in TaskIds |-> [a \in Voters |-> FALSE]]
  /\ commits = [id \in TaskIds |-> [a \in Voters |-> NoCommit]]
  /\ revealed = [id \in TaskIds |-> [a \in Voters |-> FALSE]]
  /\ votes = [id \in TaskIds |-> [a \in Voters |-> 0]]
  /\ claimed = [id \in TaskIds |-> [a \in Voters |-> FALSE]]
  /\ balanceOf = [a \in Accounts |-> IF a = Creator THEN CreatorFunds ELSE 0]
  /\ optionVotes = [id \in TaskIds |-> [o \in 0 .. 4 |-> 0]]
  /\ revealCount = [id \in TaskIds |-> 0]
  /\ eligibleCount = [id \in TaskIds |-> 0]

\* =====================================================================
\* The relay: relay/src/chain.ts
\* =====================================================================
MAX_RANGE == 100
\* An empty slot of a JavaScript array (reads as undefined).
Hole == -1

\* console.error("[chain] poll error:", err.message): the failed call and,
\* for getLogs, the fromBlock of its request; outcome "done" logs nothing.
Logged(outcome, call, fromBlock) ==
  [outcome |-> outcome, call |-> call, fromBlock |-> fromBlock]

TickIds == 1 .. MaxTicks
IdleTick == [pc |-> "idle", currentBlock |-> 0, start |-> 0]

\* ---------------------------------------------------- suspended POSTs
PostIds == 1 .. MaxPosts
\* A handler holds the task object getTask gave it: the cache's own object
\* (live), or an object the cache has since replaced (task, as it was left).
IdlePost == [pc |-> "idle", taskId |-> 0, req |-> <<>>, live |-> TRUE, task |-> <<>>]

\* tasks.set(id, {...}) for a TaskCreated puts a new object in the cache: a
\* handler suspended with the old one keeps the old one.  TaskCreated is
\* the first entry of its task, so the old object is as the batch found it.
Replaced(post, logs) ==
  /\ post.pc # "idle"
  /\ post.live
  /\ \E k \in 1 .. Len(logs) :
       /\ logs[k].eventName = "TaskCreated"
       /\ logs[k].taskId = post.taskId
       /\ \A j \in 1 .. k : logs[j].eventName = "TaskCreated" => logs[j].decoded

Detach(ps, ts, logs) ==
  [i \in DOMAIN ps |->
     IF Replaced(ps[i], logs)
     THEN [ps[i] EXCEPT !.live = FALSE, !.task = ts[ps[i].taskId]]
     ELSE ps[i]]

\* ------------------------------------------------------- cache helpers
\* tasks.set(id, task)
MapSet(ts, id, task) ==
  [x \in (DOMAIN ts) \cup {id} |-> IF x = id THEN task ELSE ts[x]]

\* arr[idx] of a JavaScript array held as a sequence (arr[0] is its first entry)
ArrayGet(arr, idx) == IF idx < Len(arr) THEN arr[idx + 1] ELSE Hole

\* arr[idx] = v: an index past the end grows the array, leaving holes
ArraySet(arr, idx, v) ==
  [k \in 1 .. (IF idx < Len(arr) THEN Len(arr) ELSE idx + 1) |->
     IF k = idx + 1 THEN v ELSE IF k <= Len(arr) THEN arr[k] ELSE Hole]

\* x ?? 0
OrZero(x) == IF x = Hole THEN 0 ELSE x

\* task.agents.includes(agent)
Includes(agents, agent) == \E k \in 1 .. Len(agents) : agents[k] = agent

\* ------------------------------------------------------------ processLog
NewCachedTask(log) ==
  [id |-> log.taskId, creator |-> log.creator, description |-> log.description,
   options |-> log.options, bounty |-> log.bounty,
   requiredAgents |-> log.requiredAgents,
   deliberationDuration |-> log.deliberationDuration,
   deliberationStart |-> 0, cancelled |-> FALSE, phase |-> 0,
   resolved |-> FALSE, winningOption |-> 0, isTie |-> FALSE, agents |-> <<>>,
   revealCount |-> 0, optionVotes |-> [k \in 1 .. Len(log.options) |-> 0],
   reveals |-> <<>>]

ApplyTaskStarted(task, log) ==
  [task EXCEPT !.deliberationStart = log.deliberationStart, !.phase = 1]

ApplyTaskCancelled(task, log) ==
  [task EXCEPT !.cancelled = TRUE, !.phase = 4]

\* A variant without the includes() test: every AgentJoined is pushed.
PushAgentAlways(task, log) == [task EXCEPT !.agents = Append(@, log.agent)]

ApplyAgentJoined(task, log) ==
  IF ~Includes(task.agents, log.agent)
  THEN [task EXCEPT !.agents = Append(@, log.agent)]
  ELSE task

ApplyPhaseAdvanced(task, log) == [task EXCEPT !.phase = log.phase]

ApplyRevealSubmitted(task, log) ==
  LET optIdx == log.optionIndex IN
  [task EXCEPT
     !.revealCount = @ + 1,
     !.optionVotes = ArraySet(@, optIdx, OrZero(ArrayGet(@, optIdx)) + 1),
     !.reveals = Append(@, [agent |-> log.agent, optionIndex |-> optIdx])]

ApplyTaskResolved(task, log) ==
  [task EXCEPT !.resolved = TRUE, !.winningOption = log.winningOption,
               !.isTie = log.isTie, !.phase = 4]

\* A TaskCreated entry whose data did not decode carries its indexed
\* arguments only: args.bounty.toString() throws a TypeError.
processLogThrows(log) == log.eventName = "TaskCreated" /\ ~log.decoded

\* The cache after processLog(log), for a log it does not throw on.
processLog(ts, log) ==
  LET id == log.taskId
      has == id \in DOMAIN ts
      upd(task) == MapSet(ts, id, task)
  IN CASE log.eventName = "TaskCreated" -> upd(NewCachedTask(log))
       [] log.eventName = "TaskStarted" /\ has -> upd(ApplyTaskStarted(ts[id], log))
       [] log.eventName = "TaskCancelled" /\ has -> upd(ApplyTaskCancelled(ts[id], log))
       [] log.eventName = "AgentJoined" /\ has -> upd(ApplyAgentJoined(ts[id], log))
       [] log.eventName = "PhaseAdvanced" /\ has -> upd(ApplyPhaseAdvanced(ts[id], log))
       [] log.eventName = "RevealSubmitted" /\ has -> upd(ApplyRevealSubmitted(ts[id], log))
       [] log.eventName = "TaskResolved" /\ has -> upd(ApplyTaskResolved(ts[id], log))
       [] OTHER -> ts

\* for (const log of logs) processLog(log): the cache when the loop ends,
\* and whether it ended by a throw.
RECURSIVE ProcessLogs(_, _)
ProcessLogs(ts, logs) ==
  IF logs = <<>> THEN [tasks |-> ts, threw |-> FALSE]
  ELSE IF processLogThrows(Head(logs)) THEN [tasks |-> ts, threw |-> TRUE]
  ELSE ProcessLogs(processLog(ts, Head(logs)), Tail(logs))

\* client.getLogs({fromBlock, toBlock})
getLogs(fromBlock, toBlock) ==
  SelectSeq(chainLog,
            LAMBDA l : l.blockNumber >= fromBlock /\ l.blockNumber <= toBlock)

\* ------------------------------------------------------ the phase sweep
\* A variant whose windows end one second late.
SweepLate(task, time) ==
  IF task.resolved \/ task.cancelled THEN task
  ELSE IF task.deliberationStart = 0 THEN [task EXCEPT !.phase = 0]
  ELSE LET delibEnd == task.deliberationStart + task.deliberationDuration
           commitEnd == delibEnd + COMMIT_DURATION
           revealEnd == commitEnd + REVEAL_DURATION
       IN IF time > revealEnd THEN [task EXCEPT !.phase = 4]
          ELSE IF time > commitEnd THEN [task EXCEPT !.phase = 3]
          ELSE IF time > delibEnd THEN [task EXCEPT !.phase = 2]
          ELSE [task EXCEPT !.phase = 1]

\* One pass of the sweep's loop with Math.floor(Date.now() / 1000) = time
SweepTaskAt(task, time) ==
  IF task.resolved \/ task.cancelled THEN task
  ELSE IF task.deliberationStart = 0 THEN [task EXCEPT !.phase = 0]
  ELSE LET delibEnd == task.deliberationStart + task.deliberationDuration
           commitEnd == delibEnd + COMMIT_DURATION
           revealEnd == commitEnd + REVEAL_DURATION
       IN IF time >= revealEnd THEN [task EXCEPT !.phase = 4]
          ELSE IF time >= commitEnd THEN [task EXCEPT !.phase = 3]
          ELSE IF time >= delibEnd THEN [task EXCEPT !.phase = 2]
          ELSE [task EXCEPT !.phase = 1]

SweepTask(task) == SweepTaskAt(task, now)

Sweep(ts) == [id \in DOMAIN ts |-> SweepTask(ts[id])]

\* ------------------------------------------------- hydrateFromContract
StartupAt(pc) ==
  [pc |-> pc, id |-> 0, taskCount |-> 0, task |-> ZeroTask, agents |-> <<>>,
   rc |-> 0, votes |-> <<>>]

\* What the loop over ids does after one id is finished or given up.
NextId(s) ==
  IF s.id + 1 < s.taskCount
  THEN [StartupAt("getTask") EXCEPT !.id = s.id + 1, !.taskCount = s.taskCount]
  ELSE StartupAt("getBlockNumber")

\* The contract's getTask view: the stored task with its phase as of now.
getTaskView(id) == [ltasks[id] EXCEPT !.phase = _currentPhase(ltasks[id])]

\* A variant that fills reveals from what it read: one record per agent,
\* as many as revealCount says.
HydratedTaskBackfilled(s, votesRead) ==
  [id |-> s.id, creator |-> s.task.creator, description |-> s.task.description,
   options |-> s.task.options, bounty |-> s.task.bounty,
   requiredAgents |-> s.task.requiredAgents,
   deliberationDuration |-> s.task.deliberationDuration,
   deliberationStart |-> s.task.deliberationStart,
   cancelled |-> s.task.cancelled, phase |-> s.task.phase,
   resolved |-> s.task.resolved, winningOption |-> s.task.winningOption,
   isTie |-> s.task.isTie, agents |-> s.agents, revealCount |-> s.rc,
   optionVotes |-> votesRead,
   reveals |-> [k \in 1 .. s.rc |->
                  [agent |-> s.agents[k], optionIndex |-> s.task.winningOption]]]

HydratedTask(s, votesRead) ==
  [id |-> s.id, creator |-> s.task.creator, description |-> s.task.description,
   options |-> s.task.options, bounty |-> s.task.bounty,
   requiredAgents |-> s.task.requiredAgents,
   deliberationDuration |-> s.task.deliberationDuration,
   deliberationStart |-> s.task.deliberationStart,
   cancelled |-> s.task.cancelled, phase |-> s.task.phase,
   resolved |-> s.task.resolved, winningOption |-> s.task.winningOption,
   isTie |-> s.task.isTie, agents |-> s.agents, revealCount |-> s.rc,
   optionVotes |-> votesRead, reveals |-> <<>>]

HydrateTaskCount ==
  /\ startup.pc = "taskCount"
  /\ startup' = IF taskCount > 0
                THEN [StartupAt("getTask") EXCEPT !.taskCount = taskCount]
                ELSE StartupAt("getBlockNumber")
  /\ UNCHANGED <<tasks, lastBlock, polling, ticks, pollLog, failures, world>>
  /\ NoRequest

HydrateGetTask ==
  /\ startup.pc = "getTask"
  /\ startup' = [startup EXCEPT !.pc = "getAgents", !.task = getTaskView(startup.id)]
  /\ UNCHANGED <<tasks, lastBlock, polling, ticks, pollLog, failures, world>>
  /\ NoRequest

HydrateGetAgents ==
  /\ startup.pc = "getAgents"
  /\ startup' = [startup EXCEPT !.pc = "revealCount",
                                !.agents = taskAgents[startup.id]]
  /\ UNCHANGED <<tasks, lastBlock, polling, ticks, pollLog, failures, world>>
  /\ NoRequest

\* options.length is at least 2: the votes loop always runs.
HydrateRevealCount ==
  /\ startup.pc = "revealCount"
  /\ startup' = [startup EXCEPT !.pc = "optionVotes",
                                !.rc = revealCount[startup.id]]
  /\ UNCHANGED <<tasks, lastBlock, polling, ticks, pollLog, failures, world>>
  /\ NoRequest

\* One pass of the votes loop; after the last one the task is cached.
HydrateOptionVotes ==
  /\ startup.pc = "optionVotes"
  /\ LET o == Len(startup.votes)
         votesRead == Append(startup.votes, optionVotes[startup.id][o])
     IN IF o + 1 < Len(startup.task.options)
        THEN /\ startup' = [startup EXCEPT !.votes = votesRead]
             /\ tasks' = tasks
        ELSE /\ tasks' = MapSet(tasks, startup.id, HydratedTask(startup, votesRead))
             /\ startup' = NextId(startup)
  /\ UNCHANGED <<lastBlock, polling, ticks, pollLog, failures, world>>
  /\ NoRequest

\* A read of one task fails: the task is logged and skipped.
HydrateReadFails ==
  /\ startup.pc \in {"getTask", "getAgents", "revealCount", "optionVotes"}
  /\ failures < MaxFailures
  /\ failures' = failures + 1
  /\ startup' = NextId(startup)
  /\ UNCHANGED <<tasks, lastBlock, polling, ticks, pollLog, world>>
  /\ NoRequest

\* ----------------------------------------------------------- startPoller
\* lastBlock = await client.getBlockNumber(); setInterval(poll, POLL_INTERVAL)
StartPolling ==
  /\ startup.pc = "getBlockNumber"
  /\ lastBlock' = height
  /\ startup' = StartupAt("running")
  /\ UNCHANGED <<tasks, polling, ticks, pollLog, failures, world>>
  /\ NoRequest

\* taskCount or the first getBlockNumber fails: startPoller rejects before
\* setInterval, and no tick ever runs.
StartupFails ==
  /\ startup.pc \in {"taskCount", "getBlockNumber"}
  /\ failures < MaxFailures
  /\ failures' = failures + 1
  /\ startup' = StartupAt("rejected")
  /\ UNCHANGED <<tasks, lastBlock, polling, ticks, pollLog, world>>
  /\ NoRequest

\* ------------------------------------------------------------------ poll
\* A variant without the re-entrancy test: poll() never returns early.
NeverGuard(flag) == FALSE

\* if (polling) return
PollGuard(flag) == flag

\* The sub-range that starts at start: its last block.
RangeEnd(start, currentBlock) ==
  IF start + MAX_RANGE > currentBlock THEN currentBlock ELSE start + MAX_RANGE

\* A variant that starts the next sub-range on the last block of this one.
NextStartOverlapping(start) == start + MAX_RANGE

\* The loop's next start.
NextStart(start) == start + MAX_RANGE + 1

\* A variant that moves lastBlock after every sub-range.
LastBlockPerRange(last, end, currentBlock, loopDone) == end

\* lastBlock once the sub-range ending at end is applied: it moves after
\* the loop only.
LastBlockAfter(last, end, currentBlock, loopDone) ==
  IF loopDone THEN currentBlock ELSE last

\* finally { polling = false }
PollFinally(flag, outcome) == FALSE

ActiveTicks == {i \in TickIds : ticks[i].pc # "idle"}
FreeTick == CHOOSE i \in TickIds \ ActiveTicks :
              \A j \in TickIds \ ActiveTicks : i <= j

\* The interval timer calls poll() while a tick is running: it returns.
PollSkip ==
  /\ startup.pc = "running"
  /\ PollGuard(polling)
  /\ UNCHANGED <<relayVars, world>>
  /\ NoRequest

\* The interval timer calls poll(): up to the first await.
PollEnter ==
  /\ startup.pc = "running"
  /\ ~PollGuard(polling)
  /\ TickIds \ ActiveTicks # {}
  /\ polling' = TRUE
  /\ ticks' = [ticks EXCEPT ![FreeTick].pc = "getBlockNumber"]
  /\ UNCHANGED <<tasks, lastBlock, startup, pollLog, failures, world>>
  /\ NoRequest

\* getBlockNumber answers: to the first getLogs, or through the sweep to
\* the end when there is no new block.
PollGetBlockNumber(i) ==
  /\ ticks[i].pc = "getBlockNumber"
  /\ LET currentBlock == height IN
     IF currentBlock > lastBlock
     THEN /\ ticks' = [ticks EXCEPT ![i] = [pc |-> "getLogs",
                         currentBlock |-> currentBlock, start |-> lastBlock + 1]]
          /\ UNCHANGED <<tasks, polling, pollLog>>
     ELSE /\ tasks' = Sweep(tasks)
          /\ ticks' = [ticks EXCEPT ![i] = IdleTick]
          /\ polling' = PollFinally(polling, "done")
          /\ pollLog' = Logged("done", "", 0)
  /\ UNCHANGED <<lastBlock, startup, failures, world>>
  /\ NoRequest

\* getLogs answers for the sub-range at start: its logs are processed; then
\* the next sub-range, or lastBlock, the sweep and the end.
PollGetLogs(i) ==
  /\ ticks[i].pc = "getLogs"
  /\ LET t == ticks[i]
         end == RangeEnd(t.start, t.currentBlock)
         logs == getLogs(t.start, end)
         r == ProcessLogs(tasks, logs)
         loopDone == ~(NextStart(t.start) <= t.currentBlock)
     IN IF r.threw
        THEN /\ tasks' = r.tasks
             /\ ticks' = [ticks EXCEPT ![i] = IdleTick]
             /\ polling' = PollFinally(polling, "error")
             /\ pollLog' = Logged("error", "processLog", t.start)
             /\ lastBlock' = lastBlock
        ELSE /\ lastBlock' = LastBlockAfter(lastBlock, end, t.currentBlock, loopDone)
             /\ IF loopDone
                THEN /\ tasks' = Sweep(r.tasks)
                     /\ ticks' = [ticks EXCEPT ![i] = IdleTick]
                     /\ polling' = PollFinally(polling, "done")
                     /\ pollLog' = Logged("done", "", 0)
                ELSE /\ tasks' = r.tasks
                     /\ ticks' = [ticks EXCEPT ![i].start = NextStart(t.start)]
                     /\ UNCHANGED <<polling, pollLog>>
  /\ posts' = Detach(posts, tasks,
                      getLogs(ticks[i].start,
                              RangeEnd(ticks[i].start, ticks[i].currentBlock)))
  /\ UNCHANGED <<startup, failures, chainVars, ledgerVars, storeVars>>
  /\ NoRequest

\* getBlockNumber or getLogs fails: caught, logged, the tick ends.
PollRpcFails(i) ==
  /\ ticks[i].pc \in {"getBlockNumber", "getLogs"}
  /\ failures < MaxFailures
  /\ failures' = failures + 1
  /\ ticks' = [ticks EXCEPT ![i] = IdleTick]
  /\ polling' = PollFinally(polling, "error")
  /\ pollLog' = Logged("error", ticks[i].pc, ticks[i].start)
  /\ UNCHANGED <<tasks, lastBlock, startup, world>>
  /\ NoRequest

RelayInit ==
  /\ tasks = <<>>
  /\ lastBlock = 0
  /\ polling = FALSE
  /\ startup = StartupAt("taskCount")
  /\ ticks = [i \in TickIds |-> IdleTick]
  /\ pollLog = Logged("none", "", 0)
  /\ failures = 0
  /\ rateBuckets = <<>>
  /\ posts = [i \in PostIds |-> IdlePost]
  /\ resp = NoResponse

\* =====================================================================
\* The query routes: relay/src/routes.ts, relay/src/store.ts
\* =====================================================================
\* The ids a client puts in the path: a task's, and one that is no id.
RawIds == {-1, 0}

\* The ids of ts from the highest down: the order of sort((a, b) => b.id - a.id).
RECURSIVE IdsDescending(_)
IdsDescending(ids) ==
  IF ids = {} THEN <<>>
  ELSE LET m == CHOOSE x \in ids : \A y \in ids : y <= x
       IN <<m>> \o IdsDescending(ids \ {m})

getAllTasks ==
  LET order == IdsDescending(DOMAIN tasks)
  IN [k \in 1 .. Len(order) |-> tasks[order[k]]]

Undefined == [id |-> -1]
getTask(id) == IF id \in DOMAIN tasks THEN tasks[id] ELSE Undefined

\* messages.get(taskId) ?? []
getMessages(taskId) == IF taskId \in DOMAIN messages THEN messages[taskId] ELSE <<>>

Null == -1
\* Number(raw), or null unless it is an integer >= 0
parseId(raw) == IF raw < 0 THEN Null ELSE raw

\* What no route that only reads changes.
server == <<chainVars, ledgerVars, relayVars, postVars>>

\* A variant that brings the phases up to date before it answers.
GetTasksSweeping ==
  /\ resp = NoResponse
  /\ tasks' = Sweep(tasks)
  /\ resp' = [route |-> "GET /tasks", status |-> 200, body |-> getAllTasks]
  /\ UNCHANGED <<lastBlock, polling, startup, ticks, pollLog, failures,
                 chainVars, ledgerVars, postVars>>

\* GET /tasks
GetTasks ==
  /\ resp = NoResponse
  /\ resp' = [route |-> "GET /tasks", status |-> 200, body |-> getAllTasks]
  /\ UNCHANGED server

\* GET /tasks/:id
GetTaskById(raw) ==
  /\ resp = NoResponse
  /\ LET id == parseId(raw) IN
     resp' = IF id = Null
             THEN [route |-> "GET /tasks/:id", status |-> 400,
                   body |-> "Invalid task ID"]
             ELSE IF getTask(id) = Undefined
             THEN [route |-> "GET /tasks/:id", status |-> 404,
                   body |-> "Task not found"]
             ELSE [route |-> "GET /tasks/:id", status |-> 200,
                   body |-> [task |-> getTask(id), messages |-> getMessages(id)]]
  /\ UNCHANGED server

\* =====================================================================
\* POST /tasks/:id/messages: relay/src/routes.ts, relay/src/store.ts
\* =====================================================================
MAX_MESSAGES_PER_TASK == 500
MSG_RATE_WINDOW == 60000
MSG_RATE_LIMIT == 20
MAX_CONTENT_LENGTH == 2000

\* Date.now(), in milliseconds
DateNow == now * 1000

\* GET /health
GetHealth ==
  /\ resp = NoResponse
  /\ resp' = [route |-> "GET /health", status |-> 200,
              body |-> [status |-> "ok", timestamp |-> DateNow]]
  /\ UNCHANGED server

\* GET /tasks/:id/messages
GetMessages(raw) ==
  /\ resp = NoResponse
  /\ LET taskId == parseId(raw) IN
     resp' = IF taskId = Null
             THEN [route |-> "GET /tasks/:id/messages", status |-> 400,
                   body |-> "Invalid task ID"]
             ELSE [route |-> "GET /tasks/:id/messages", status |-> 200,
                   body |-> getMessages(taskId)]
  /\ UNCHANGED server

\* ------------------------------------------------- values of a JSON body
Absent == [type |-> "undefined", text |-> "", length |-> 0]
Str(text, length) == [type |-> "string", text |-> text, length |-> length]
Num(text) == [type |-> "number", text |-> text, length |-> 0]
\* !v
Falsy(v) == v.type = "undefined" \/ (v.type = "string" /\ v.length = 0)

\* The strings that match /^0x[0-9a-fA-F]{40}$/: the agents' addresses as
\* the ledger gives them, and the same in lower case.
AddressStrings == {"A1", "a1", "A2", "a2"}
\* String.prototype.toLowerCase
toLowerCase(str) ==
  CASE str = "A1" -> "a1"
    [] str = "A2" -> "a2"
    [] str = "C1" -> "c1"
    [] OTHER -> str

\* A signature: whether it matches /^0x[0-9a-fA-F]{130}$/, and for one that
\* does, the address and the message it recovers to ("none": it recovers
\* to nothing and verification throws).
NoSignature ==
  [type |-> "undefined", length |-> 0, hex |-> FALSE, signer |-> "none",
   message |-> <<>>]
BadHex ==
  [type |-> "string", length |-> 3, hex |-> FALSE, signer |-> "none",
   message |-> <<>>]
Garbage ==
  [type |-> "string", length |-> 132, hex |-> TRUE, signer |-> "none",
   message |-> <<>>]
\* JSON.stringify({ taskId, content })
JSONstringify(taskId, content) == <<taskId, content.text>>
\* The EIP-191 signature of the message by the key of the address.
Sign(address, taskId, content) ==
  [type |-> "string", length |-> 132, hex |-> TRUE, signer |-> address,
   message |-> JSONstringify(taskId, content)]

\* await verifyMessage({ address, message, signature })
verifyMessage(address, message, signature) ==
  IF signature.signer = "none" THEN "threw"
  ELSE IF signature.signer = toLowerCase(address) /\ signature.message = message
  THEN "valid"
  ELSE "invalid"

\* ------------------------------------------------------- request inputs
Hello == Str("hello", 5)
Contents == {Absent, Str("", 0), Hello, Str("long", MAX_CONTENT_LENGTH + 1), Num("7")}
Senders == {Absent, Str("nobody", 6), Str("A1", 42), Str("a1", 42), Str("A2", 42)}
Signatures ==
  {NoSignature, BadHex, Garbage}
    \cup {Sign("a1", 0, Hello), Sign("a2", 0, Hello), Sign("a1", 1, Hello)}
RawPostIds == {-1, 0, 1}
\* A well-formed post to task 0 by agent A1, and the requests that differ
\* from it in one field, in the task and the body, or in who signs.
GoodPost ==
  [raw |-> 0, content |-> Hello, signature |-> Sign("a1", 0, Hello),
   sender |-> Str("A1", 42)]
PostRequests ==
  {[GoodPost EXCEPT !.raw = r] : r \in RawPostIds}
    \cup {[GoodPost EXCEPT !.content = c] : c \in Contents}
    \cup {[GoodPost EXCEPT !.signature = g] : g \in Signatures}
    \cup {[GoodPost EXCEPT !.sender = a] : a \in Senders}
    \cup {[GoodPost EXCEPT !.raw = 1, !.content = c] : c \in Contents}
    \cup {[GoodPost EXCEPT !.sender = Str("A2", 42),
                           !.signature = Sign("a2", 0, Hello)]}

\* The posts with a well-formed body for a cached task, and one of each
\* kind turned away before the body is looked at.
SignedPosts ==
  {GoodPost,
   [GoodPost EXCEPT !.sender = Str("a1", 42)],
   [GoodPost EXCEPT !.signature = Sign("a2", 0, Hello)],
   [GoodPost EXCEPT !.signature = Garbage],
   [GoodPost EXCEPT !.sender = Str("A2", 42),
                    !.signature = Sign("a2", 0, Hello)],
   [GoodPost EXCEPT !.raw = -1],
   [GoodPost EXCEPT !.content = Absent]}

\* The correctly signed posts of the member A1, its address in either case.
MemberPosts == {GoodPost, [GoodPost EXCEPT !.sender = Str("a1", 42)]}

\* Posts that name A1 as sender and carry a signature A1 did not make.
ForgedPosts == {[GoodPost EXCEPT !.signature = Sign("a2", 0, Hello)]}

\* The member's correctly signed posts to task 0 and to task 1.
CapPosts ==
  {GoodPost, [GoodPost EXCEPT !.raw = 1, !.signature = Sign("a1", 1, Hello)]}

\* ---------------------------------------------------------- rate limiter
\* isRateLimited(sender) at time t: its answer and the buckets it leaves.
\* The limiter turning away the post that reaches the limit.
isRateLimitedAtLimit(buckets, sender, t) ==
  IF sender \notin DOMAIN buckets \/ t >= buckets[sender].resetAt
  THEN [limited |-> FALSE,
        buckets |-> MapSet(buckets, sender,
                           [count |-> 1, resetAt |-> t + MSG_RATE_WINDOW])]
  ELSE [limited |-> buckets[sender].count + 1 >= MSG_RATE_LIMIT,
        buckets |-> [buckets EXCEPT ![sender].count = @ + 1]]

isRateLimited(buckets, sender, t) ==
  IF sender \notin DOMAIN buckets \/ t >= buckets[sender].resetAt
  THEN [limited |-> FALSE,
        buckets |-> MapSet(buckets, sender,
                           [count |-> 1, resetAt |-> t + MSG_RATE_WINDOW])]
  ELSE [limited |-> buckets[sender].count + 1 > MSG_RATE_LIMIT,
        buckets |-> [buckets EXCEPT ![sender].count = @ + 1]]

\* ---------------------------------------------------------------- store
\* A store that makes room by dropping the task's oldest message.
addMessageEvicting(ms, msg) ==
  LET list == IF msg.taskId \in DOMAIN ms THEN ms[msg.taskId] ELSE <<>>
  IN IF Len(list) >= MAX_MESSAGES_PER_TASK
     THEN MapSet(ms, msg.taskId, Append(Tail(list), msg))
     ELSE MapSet(ms, msg.taskId, Append(list, msg))

\* addMessage(msg): the store it leaves.
addMessage(ms, msg) ==
  LET list == IF msg.taskId \in DOMAIN ms THEN ms[msg.taskId] ELSE <<>>
  IN IF Len(list) >= MAX_MESSAGES_PER_TASK THEN ms
     ELSE MapSet(ms, msg.taskId, Append(list, msg))

\* persist(), called by addMessage after it stored: the file it leaves.
persist(file, before, after) == IF after = before THEN file ELSE after

\* ------------------------------------------------------------ the route
PostRoute == "POST /tasks/:id/messages"
\* A response of the route, with the request it answers.
Answer(req, status, body) ==
  [route |-> PostRoute, status |-> status, body |-> body, request |-> req]

\* The checks of the body, in the handler's order.
BodyError(req) ==
  IF Falsy(req.content) \/ Falsy(req.signature) \/ Falsy(req.sender)
  THEN "Missing content, signature, or sender"
  ELSE IF req.content.type # "string" \/ req.content.length > MAX_CONTENT_LENGTH
  THEN "Content must be a string of at most 2000 characters"
  ELSE IF req.signature.type # "string" \/ ~req.signature.hex
  THEN "Invalid signature format"
  ELSE IF req.sender.type # "string" \/ req.sender.text \notin AddressStrings
  THEN "Invalid sender address"
  ELSE "ok"

\* The handler before the rate limiter: the rejection it sends, or
\* NoResponse when it goes on.
PostCheck(req) ==
  IF parseId(req.raw) = Null THEN Answer(req, 400, "Invalid task ID")
  ELSE IF getTask(parseId(req.raw)) = Undefined
  THEN Answer(req, 404, "Task not found")
  ELSE IF BodyError(req) # "ok" THEN Answer(req, 400, BodyError(req))
  ELSE NoResponse

\* task.agents.some((a) => a.toLowerCase() === sender.toLowerCase())
isRegistered(task, sender) ==
  \E k \in 1 .. Len(task.agents) :
    toLowerCase(task.agents[k]) = toLowerCase(sender)

ActivePosts == {i \in PostIds : posts[i].pc # "idle"}
FreePost == CHOOSE i \in PostIds \ ActivePosts :
              \A j \in PostIds \ ActivePosts : i <= j

\* The handler up to await verifyMessage, or to the rejection it sends
\* before.  At most maxActive handlers are suspended at once, and a bucket
\* counts at most maxCount posts in one window.
PostBegin(req, maxActive, maxCount) ==
  /\ resp = NoResponse
  /\ IF PostCheck(req) # NoResponse
     THEN /\ resp' = PostCheck(req)
          /\ UNCHANGED <<rateBuckets, posts>>
     ELSE LET key == toLowerCase(req.sender.text)
              r == isRateLimited(rateBuckets, key, DateNow)
          IN /\ r.buckets[key].count <= maxCount
             /\ rateBuckets' = r.buckets
             /\ IF r.limited
                THEN /\ resp' = Answer(req, 429, "Rate limit exceeded")
                     /\ UNCHANGED posts
                ELSE /\ Cardinality(ActivePosts) < maxActive
                     /\ posts' = [posts EXCEPT ![FreePost] =
                          [pc |-> "verify", taskId |-> parseId(req.raw),
                           req |-> req, live |-> TRUE, task |-> <<>>]]
                     /\ resp' = NoResponse
  /\ UNCHANGED <<chainVars, ledgerVars, relayVars, messages, disk>>

\* verifyMessage settles: the handler from there to its response.
PostFinish(i) ==
  /\ resp = NoResponse
  /\ posts[i].pc = "verify"
  /\ LET p == posts[i]
         req == p.req
         valid == verifyMessage(req.sender.text,
                                JSONstringify(p.taskId, req.content),
                                req.signature)
         task == IF p.live THEN tasks[p.taskId] ELSE p.task
         msg == [taskId |-> p.taskId, sender |-> toLowerCase(req.sender.text),
                 content |-> req.content.text, timestamp |-> DateNow,
                 signature |-> req.signature]
     IN IF valid = "invalid"
        THEN /\ resp' = Answer(req, 401, "Invalid signature")
             /\ UNCHANGED <<messages, disk>>
        ELSE IF valid = "threw"
        THEN /\ resp' = Answer(req, 401, "Signature verification failed")
             /\ UNCHANGED <<messages, disk>>
        ELSE IF ~isRegistered(task, req.sender.text)
        THEN /\ resp' = Answer(req, 403,
                               "Sender is not a registered agent for this task")
             /\ UNCHANGED <<messages, disk>>
        ELSE /\ messages' = addMessage(messages, msg)
             /\ disk' = persist(disk, messages, addMessage(messages, msg))
             /\ resp' = Answer(req, 201, msg)
  /\ posts' = [posts EXCEPT ![i] = IdlePost]
  /\ UNCHANGED <<chainVars, ledgerVars, relayVars, rateBuckets>>

\* The response has gone out.
ResponseSent ==
  /\ resp # NoResponse
  /\ resp' = NoResponse
  /\ UNCHANGED server

\* ------------------------------------------------------- specifications
vars == <<chainVars, ledgerVars, relayVars, postVars, resp>>

\* The store's module load: the file at STORE_PATH, when there is one.
StoreInit(file) ==
  /\ disk = file
  /\ messages = file

Init == LedgerInit /\ RelayInit /\ StoreInit(<<>>)

Next ==
  \/ CreateTask
  \/ JoinTask
  \/ CancelTask
  \/ CommitVote
  \/ RevealVote
  \/ Resolve
  \/ ClaimExpired
  \/ PassTime
  \/ HydrateTaskCount
  \/ HydrateGetTask
  \/ HydrateGetAgents
  \/ HydrateRevealCount
  \/ HydrateOptionVotes
  \/ HydrateReadFails
  \/ StartPolling
  \/ StartupFails
  \/ PollSkip
  \/ PollEnter
  \/ \E i \in TickIds : PollGetBlockNumber(i)
  \/ \E i \in TickIds : PollGetLogs(i)
  \/ \E i \in TickIds : PollRpcFails(i)

Spec == Init /\ [][Next]_vars

\* Startup beside a ledger on which one task is created and joined.  Every
\* await of the relay is answered in the end, the interval timer keeps
\* firing, and a read fails at most MaxFailures times.
StartupNext ==
  \/ CreateTaskFor({1})
  \/ JoinTaskBy({"A1"})
  \/ HydrateTaskCount
  \/ HydrateGetTask
  \/ HydrateGetAgents
  \/ HydrateRevealCount
  \/ HydrateOptionVotes
  \/ HydrateReadFails
  \/ StartPolling
  \/ PollEnter
  \/ \E i \in TickIds : PollGetBlockNumber(i)
  \/ \E i \in TickIds : PollGetLogs(i)
  \/ \E i \in TickIds : PollRpcFails(i)

StartupFairness ==
  /\ WF_vars(HydrateTaskCount)
  /\ WF_vars(HydrateGetTask)
  /\ WF_vars(HydrateGetAgents)
  /\ WF_vars(HydrateRevealCount)
  /\ WF_vars(HydrateOptionVotes)
  /\ WF_vars(StartPolling)
  /\ WF_vars(PollEnter)
  /\ WF_vars(\E i \in TickIds : PollGetBlockNumber(i))
  /\ WF_vars(\E i \in TickIds : PollGetLogs(i))

SpecStartup == Init /\ [][StartupNext]_vars /\ StartupFairness

\* The relay with clients that query it.
QueryNext ==
  \/ Next
  \/ GetTasks
  \/ \E raw \in RawIds : GetTaskById(raw)

SpecQuery == Init /\ [][QueryNext]_vars

\* The relay's own steps.
RelayStep ==
  \/ HydrateTaskCount
  \/ HydrateGetTask
  \/ HydrateGetAgents
  \/ HydrateRevealCount
  \/ HydrateOptionVotes
  \/ HydrateReadFails
  \/ StartPolling
  \/ StartupFails
  \/ PollSkip
  \/ PollEnter
  \/ \E i \in TickIds : PollGetBlockNumber(i)
  \/ \E i \in TickIds : PollGetLogs(i)
  \/ \E i \in TickIds : PollRpcFails(i)

\* Two-agent tasks while they fill, on a chain whose log may hold one
\* entry the relay cannot decode.
OpenNext ==
  \/ CreateTaskFor({2})
  \/ JoinTaskBy(Agents)
  \/ CancelTask
  \/ PassOpenTime
  \/ EmitUndecodable
  \/ RelayStep

SpecOpen == Init /\ [][OpenNext]_vars

\* The relay's steps when its startup reads succeed.
StartedRelayStep ==
  \/ HydrateTaskCount
  \/ HydrateGetTask
  \/ HydrateGetAgents
  \/ HydrateRevealCount
  \/ HydrateOptionVotes
  \/ StartPolling
  \/ PollSkip
  \/ PollEnter
  \/ \E i \in TickIds : PollGetBlockNumber(i)
  \/ \E i \in TickIds : PollGetLogs(i)
  \/ \E i \in TickIds : PollRpcFails(i)

\* The relay with clients that post: one task of one agent while it fills
\* and starts, one handler suspended at a time, one post per window.
PostNext ==
  \/ CreateTaskFor({1})
  \/ JoinTaskBy({"A1"})
  \/ PassOpenTime
  \/ StartedRelayStep
  \/ \E req \in SignedPosts : PostBegin(req, 1, 1)
  \/ \E i \in PostIds : PostFinish(i)
  \/ ResponseSent

SpecPost == Init /\ [][PostNext]_vars

\* The relay at startup, polling a chain at rest, with clients that send
\* every kind of request.
ValidateNext ==
  \/ CreateTaskFor({1})
  \/ JoinTaskBy({"A1"})
  \/ HydrateTaskCount
  \/ HydrateGetTask
  \/ HydrateGetAgents
  \/ HydrateRevealCount
  \/ HydrateOptionVotes
  \/ StartPolling
  \/ PollSkip
  \/ PollEnter
  \/ \E i \in TickIds : PollGetBlockNumber(i)
  \/ \E i \in TickIds : PollGetLogs(i)
  \/ \E req \in PostRequests : PostBegin(req, 1, 1)
  \/ \E i \in PostIds : PostFinish(i)
  \/ ResponseSent

SpecValidate == Init /\ [][ValidateNext]_vars

\* The relay at startup, polling a chain on which a task fills and starts,
\* with clients that call every route.
RoutesNext ==
  \/ ValidateNext
  \/ PassOpenTime
  \/ GetHealth
  \/ GetTasks
  \/ \E raw \in RawIds : GetTaskById(raw)
  \/ \E raw \in RawIds : GetMessages(raw)

SpecRoutes == Init /\ [][RoutesNext]_vars

\* The ledger by itself: one task of three options for three agents, and
\* every call by any of them at any time.
CreateVoterTask ==
  /\ taskCount < MaxSoloTasks
  /\ \E o \in VoterOptionLists, r \in VoterRequiredAgents, d \in DurationInputs :
       createTask(Creator, Description, o, r, d)

JoinInOrder ==
  \E id \in ExistingTasks :
    /\ Len(taskAgents[id]) < Len(VoterOrder)
    /\ joinTask(id, VoterOrder[Len(taskAgents[id]) + 1])

\* The calls that fill the task land within its first minute.
PassLedgerTime ==
  /\ \E id \in ExistingTasks : ltasks[id].deliberationStart # 0
  /\ PassTimeBy(TimeStep, 1, MaxTime)

LedgerNext ==
  \/ CreateVoterTask
  \/ JoinInOrder
  \/ CancelTask
  \/ CommitVoteBy(Voters)
  \/ RevealVoteBy(Voters)
  \/ Resolve
  \/ ClaimBountyBy(Voters)
  \/ ClaimExpired
  \/ AdvancePhase
  \/ PassLedgerTime

SpecLedger == Init /\ [][LedgerNext]_vars

\* The ledger by itself, for a task of two options that two of the three
\* accounts join: any account commits a hash, also of an index the task does
\* not have, and reveals any index.
CommitAnyIndexBy(agents) ==
  \E id \in ExistingTasks, a \in agents, s \in Salts :
    \E o \in 0 .. Len(ltasks[id].options) :
      commit(id, a, keccak256(id, o, s))

RevealAnyIndexBy(agents) ==
  \E id \in ExistingTasks, a \in agents, s \in Salts :
    \E o \in 0 .. Len(ltasks[id].options) : reveal(id, a, o, s)

RevealNext ==
  \/ CreateTaskFor({2})
  \/ JoinInOrder
  \/ CommitAnyIndexBy(Voters)
  \/ RevealAnyIndexBy(Voters)
  \/ Resolve
  \/ AdvancePhase
  \/ PassLedgerTime

SpecReveal == Init /\ [][RevealNext]_vars

\* Half a minute passes; a signature check takes less, so no handler is
\* suspended across it.
PassRateTime == ActivePosts = {} /\ PassTimeBy(RateStep, 0, MaxRateTime)

\* The member A1 posts to task 0 once the cache holds its join.
MemberPost(maxCount) ==
  /\ 0 \in DOMAIN tasks
  /\ isRegistered(tasks[0], "A1")
  /\ \E req \in MemberPosts : PostBegin(req, 1, maxCount)

\* The relay hydrated from a chain at rest, with a member that posts again
\* and again.
RateNext ==
  \/ CreateTaskFor({1})
  \/ JoinTaskBy({"A1"})
  \/ HydrateTaskCount
  \/ HydrateGetTask
  \/ HydrateGetAgents
  \/ HydrateRevealCount
  \/ HydrateOptionVotes
  \/ PassRateTime
  \/ MemberPost(MaxCounted)
  \/ \E i \in PostIds : PostFinish(i)
  \/ ResponseSent

SpecRate == Init /\ [][RateNext]_vars

\* The member A1 posts to task 0 while its list is short.
OwnPost(maxCount) ==
  /\ 0 \in DOMAIN tasks
  /\ isRegistered(tasks[0], "A1")
  /\ Len(IF 0 \in DOMAIN messages THEN messages[0] ELSE <<>>) < MaxOwnPosts
  /\ PostBegin(GoodPost, 1, maxCount)

\* Someone else posts to task 0 under A1's address.
ForgedPost(maxCount) ==
  /\ 0 \in DOMAIN tasks
  /\ isRegistered(tasks[0], "A1")
  /\ \E req \in ForgedPosts : PostBegin(req, 1, maxCount)

\* The relay hydrated from a chain at rest, with a member that posts and a
\* third party that posts under the member's address.
ForgeNext ==
  \/ CreateTaskFor({1})
  \/ JoinTaskBy({"A1"})
  \/ HydrateTaskCount
  \/ HydrateGetTask
  \/ HydrateGetAgents
  \/ HydrateRevealCount
  \/ HydrateOptionVotes
  \/ PassRateTime
  \/ OwnPost(MaxCounted)
  \/ ForgedPost(MaxCounted)
  \/ \E i \in PostIds : PostFinish(i)
  \/ ResponseSent

SpecForge == Init /\ [][ForgeNext]_vars

\* The relay reading a log that holds entries the contract does not emit.
ForeignNext ==
  \/ CreateTaskFor({1})
  \/ JoinTaskBy({"A1"})
  \/ EmitRevealOutOfRange
  \/ EmitJoinOfFullTask
  \/ HydrateTaskCount
  \/ HydrateGetTask
  \/ HydrateGetAgents
  \/ HydrateRevealCount
  \/ HydrateOptionVotes
  \/ StartPolling
  \/ PollSkip
  \/ PollEnter
  \/ \E i \in TickIds : PollGetBlockNumber(i)
  \/ \E i \in TickIds : PollGetLogs(i)

SpecForeign == Init /\ [][ForeignNext]_vars

\* The file an earlier run left: task 0 one message short of the cap.
OldFile ==
  [id \in {0} |->
     [n \in 1 .. StoredBefore |->
        [taskId |-> 0, sender |-> "a1", content |-> "hello", timestamp |-> n,
         signature |-> Sign("a1", 0, Hello)]]]

CapInit == LedgerInit /\ RelayInit /\ StoreInit(OldFile)

\* The relay started on that file and hydrated from a chain at rest, with
\* a member of two tasks that posts to both.
CapNext ==
  \/ CreateTasksFor(MaxTasks, {1})
  \/ JoinTaskBy({"A1"})
  \/ HydrateTaskCount
  \/ HydrateGetTask
  \/ HydrateGetAgents
  \/ HydrateRevealCount
  \/ HydrateOptionVotes
  \/ PassRateTime
  \/ \E req \in CapPosts : PostBegin(req, 1, MaxCapCounted)
  \/ \E i \in PostIds : PostFinish(i)
  \/ ResponseSent

SpecCap == CapInit /\ [][CapNext]_vars

\* The member A1 posts to task 0 while other posts of it are suspended at
\* the signature check.
FlightPost(maxCount) ==
  /\ 0 \in DOMAIN tasks
  /\ isRegistered(tasks[0], "A1")
  /\ \E req \in MemberPosts : PostBegin(req, MaxPosts, maxCount)

\* The relay started on that file, with a member whose posts to task 0 are
\* in flight together.
FlightNext ==
  \/ CreateTaskFor({1})
  \/ JoinTaskBy({"A1"})
  \/ HydrateTaskCount
  \/ HydrateGetTask
  \/ HydrateGetAgents
  \/ HydrateRevealCount
  \/ HydrateOptionVotes
  \/ PassRateTime
  \/ FlightPost(MaxCounted)
  \/ \E i \in PostIds : PostFinish(i)
  \/ ResponseSent

SpecFlight == CapInit /\ [][FlightNext]_vars

\* =====================================================================
\* Properties of the relay's cache and poller
\* =====================================================================
\* ------------------------------------------------------------- helpers
\* How many entries of task.reveals name the agent.
RevealsBy(task, agent) ==
  Cardinality({k \in 1 .. Len(task.reveals) : task.reveals[k].agent = agent})

RECURSIVE SumVotes(_)
SumVotes(arr) ==
  IF arr = <<>> THEN 0 ELSE OrZero(Head(arr)) + SumVotes(Tail(arr))

\* The log entries with the given name for a task: their places in chainLog.
EventsOf(name, id) ==
  {k \in 1 .. Len(chainLog) :
     chainLog[k].eventName = name /\ chainLog[k].taskId = id}

\* The tick that takes the step, when the step is a tick's.
TickEnds(i) == ticks[i].pc # "idle" /\ ticks'[i].pc = "idle"
RpcFailed == failures' = failures + 1
\* The last finished tick failed in a getLogs after its first sub-range, and
\* lastBlock has not moved since: the blocks before fromBlock were applied
\* and are fetched again.
FailedInLaterRange ==
  /\ pollLog.outcome = "error"
  /\ pollLog.call = "getLogs"
  /\ pollLog.fromBlock > lastBlock + 1

\* ------------------------------------------------------------------ C1
\* C1: when a tick fails in a later sub-range, lastBlock keeps the value it
\* had before the tick, the next tick fetches again from the same first
\* block, and once the retry succeeds every event has been applied exactly
\* once: no agent has two entries in reveals, and revealCount and optionVotes
\* count no more reveals than the ledger does.
C1_RetryAppliesEachEventOnce ==
  [][\A i \in TickIds :
       /\ (TickEnds(i) /\ RpcFailed /\ ticks[i].pc = "getLogs"
             /\ ticks[i].start > lastBlock + 1)
            => lastBlock' = lastBlock
       /\ (ticks[i].pc = "getBlockNumber" /\ ticks'[i].pc = "getLogs")
            => ticks'[i].start = lastBlock + 1
       /\ (TickEnds(i) /\ pollLog'.outcome = "done")
            => \A id \in DOMAIN tasks' :
                 /\ \A a \in Agents : RevealsBy(tasks'[id], a) <= 1
                 /\ tasks'[id].revealCount <= revealCount[id]
                 /\ \A o \in 0 .. (Len(tasks'[id].optionVotes) - 1) :
                      OrZero(ArrayGet(tasks'[id].optionVotes, o))
                        <= optionVotes[id][o]
    ]_vars

\* ------------------------------------------------------------------ C2
\* C2: processing the same RevealSubmitted entry a second time changes
\* nothing: revealCount, optionVotes and reveals are as after the first time.
C2_SecondRevealIsNoOp ==
  \A id \in DOMAIN tasks : \A k \in EventsOf("RevealSubmitted", id) :
    LET once == processLog(tasks, chainLog[k])
        twice == processLog(once, chainLog[k])
    IN /\ twice[id].revealCount = once[id].revealCount
       /\ twice[id].optionVotes = once[id].optionVotes
       /\ twice[id].reveals = once[id].reveals

\* ------------------------------------------------------------------ C3
\* C3: in every state of the cache the entries of a task's optionVotes add
\* up to its revealCount.
C3_VotesAddUpToRevealCount ==
  \A id \in DOMAIN tasks :
    SumVotes(tasks[id].optionVotes) = tasks[id].revealCount

\* ------------------------------------------------------------------ C4
\* The place in chainLog of the agent's first AgentJoined for the task.
FirstJoin(id, agent) ==
  CHOOSE k \in 1 .. Len(chainLog) :
    /\ chainLog[k].eventName = "AgentJoined"
    /\ chainLog[k].taskId = id
    /\ chainLog[k].agent = agent
    /\ \A j \in 1 .. (k - 1) :
         ~(chainLog[j].eventName = "AgentJoined" /\ chainLog[j].taskId = id
             /\ chainLog[j].agent = agent)

\* C4: no agent is twice in a cached task's agents, and the list is in the
\* order of the agents' first joins, whatever events were processed and
\* however often.
C4_AgentsUniqueInJoinOrder ==
  \A id \in DOMAIN tasks :
    LET a == tasks[id].agents IN
    \A i, j \in 1 .. Len(a) :
      i < j => /\ a[i] # a[j]
               /\ \E k \in EventsOf("AgentJoined", id) : chainLog[k].agent = a[i]
               /\ \E k \in EventsOf("AgentJoined", id) : chainLog[k].agent = a[j]
               /\ FirstJoin(id, a[i]) < FirstJoin(id, a[j])

\* A tick is fetching again after a failure in a later sub-range, has
\* processed both AgentJoined entries of a task a second time, and the task
\* holds its two agents.
C4_JoinsReplayed ==
  /\ FailedInLaterRange
  /\ \E i \in TickIds : \E id \in DOMAIN tasks :
       /\ ticks[i].pc = "getLogs"
       /\ ticks[i].start > lastBlock + 1
       /\ Len(tasks[id].agents) = 2
       /\ Cardinality(EventsOf("AgentJoined", id)) = 2
       /\ \A k \in EventsOf("AgentJoined", id) :
            /\ chainLog[k].blockNumber > lastBlock
            /\ chainLog[k].blockNumber < pollLog.fromBlock

\* ------------------------------------------------------------------ C5
\* The phase of a task at time t by the phase clock.
PhaseClock(task, t) ==
  IF task.cancelled \/ task.resolved THEN 4
  ELSE IF task.deliberationStart = 0 THEN 0
  ELSE LET delibEnd == task.deliberationStart + task.deliberationDuration
       IN IF t < delibEnd THEN 1
          ELSE IF t < delibEnd + COMMIT_DURATION THEN 2
          ELSE IF t < delibEnd + COMMIT_DURATION + REVEAL_DURATION THEN 3
          ELSE 4

\* C5: every task a query returns carries the phase the phase clock gives
\* for the time of the query, never an older stored phase.
C5_QueriesReturnClockPhase ==
  /\ resp.route = "GET /tasks"
       => \A k \in 1 .. Len(resp.body) :
            resp.body[k].phase = PhaseClock(resp.body[k], now)
  /\ (resp.route = "GET /tasks/:id" /\ resp.status = 200)
       => resp.body.task.phase = PhaseClock(resp.body.task, now)

\* ------------------------------------------------------------------ C6
\* C6: a log entry whose processing throws is dropped alone: the tick that
\* fetched it applies the other entries of the sub-range, and after its
\* last sub-range moves lastBlock to the tick's current block.
C6_ThrowingEntryDroppedAlone ==
  [][\A i \in TickIds :
       (ticks[i].pc = "getLogs" /\ ticks'[i] # ticks[i] /\ ~RpcFailed)
         => LET t == ticks[i]
                end == RangeEnd(t.start, t.currentBlock)
                rest == SelectSeq(getLogs(t.start, end),
                                  LAMBDA l : ~processLogThrows(l))
                applied == ProcessLogs(tasks, rest).tasks
                last == ~(NextStart(t.start) <= t.currentBlock)
            IN /\ tasks' = IF last THEN Sweep(applied) ELSE applied
               /\ last => lastBlock' = t.currentBlock
               /\ ~last => ticks'[i].pc = "getLogs"
    ]_vars

\* ------------------------------------------------------------------ C7
\* C7: once polling has started, lastBlock changes only in the step that
\* ends a tick whose getBlockNumber and getLogs calls all succeeded, to that
\* tick's current block; a tick that fails leaves it as it was, and the
\* next tick starts from the block after it.
C7_LastBlockMovesAtEndOfGoodTick ==
  [][startup.pc = "running" =>
       /\ lastBlock' # lastBlock
            => \E i \in TickIds :
                 /\ ticks[i].pc = "getLogs"
                 /\ TickEnds(i)
                 /\ ~RpcFailed
                 /\ pollLog'.outcome = "done"
                 /\ ~(NextStart(ticks[i].start) <= ticks[i].currentBlock)
                 /\ lastBlock' = ticks[i].currentBlock
       /\ (\E i \in TickIds : TickEnds(i) /\ pollLog'.outcome = "error")
            => lastBlock' = lastBlock
       /\ \A i \in TickIds :
            (ticks[i].pc = "getBlockNumber" /\ ticks'[i].pc = "getLogs")
              => ticks'[i].start = lastBlock + 1
    ]_vars

\* A tick failed in its second sub-range, lastBlock is where it was, and
\* the next tick has started from the block after it.
C7_RetryFromSameBlock ==
  /\ FailedInLaterRange
  /\ \E i \in TickIds :
       ticks[i].pc = "getLogs" /\ ticks[i].start = lastBlock + 1

\* ------------------------------------------------------------------ C8
\* C8: at most one tick is in progress at any time; polling is true exactly
\* while one is, so it is false again after every tick, a failed one
\* included; and while a tick is in progress no other starts.
C8_OneTickAtATime ==
  /\ [](Cardinality(ActiveTicks) <= 1 /\ polling = (ActiveTicks # {}))
  /\ [][polling => \A i \in TickIds :
                     ticks[i].pc = "idle" => ticks'[i].pc = "idle"]_vars

\* After a failed tick the flag is down and a later tick is in its second
\* sub-range.
C8_TickAfterFailedTick ==
  /\ pollLog.outcome = "error"
  /\ polling
  /\ \E i \in TickIds :
       ticks[i].pc = "getLogs" /\ ticks[i].start > lastBlock + 1

\* ------------------------------------------------------------------ C9
\* C9: once a cached task is resolved or cancelled its phase is Resolved in
\* every later state, whatever events are processed.
C9_TerminalPhaseStays ==
  [][\A id \in DOMAIN tasks :
       (tasks[id].resolved \/ tasks[id].cancelled)
         => /\ id \in DOMAIN tasks'
            /\ tasks'[id].phase = Resolved
    ]_vars

\* ----------------------------------------------------------------- C10
\* The sub-range a tick at getLogs is about to process holds an AgentJoined
\* or a RevealSubmitted for the task, and no TaskCreated for it.
JoinsOrRevealsArrive(i, id) ==
  LET logs == getLogs(ticks[i].start,
                      RangeEnd(ticks[i].start, ticks[i].currentBlock))
  IN /\ \A k \in 1 .. Len(logs) :
          logs[k].taskId = id => logs[k].eventName # "TaskCreated"
     /\ \E k \in 1 .. Len(logs) :
          /\ logs[k].taskId = id
          /\ logs[k].eventName \in {"AgentJoined", "RevealSubmitted"}

\* C10: once a cached task is resolved or cancelled, processing further
\* AgentJoined or RevealSubmitted entries leaves its agents, revealCount,
\* optionVotes and reveals as they were.
C10_TerminalTaskIgnoresJoinsAndReveals ==
  [][\A i \in TickIds : \A id \in DOMAIN tasks :
       (/\ ticks[i].pc = "getLogs"
        /\ ticks'[i] # ticks[i]
        /\ ~RpcFailed
        /\ tasks[id].resolved \/ tasks[id].cancelled
        /\ JoinsOrRevealsArrive(i, id))
         => /\ tasks'[id].agents = tasks[id].agents
            /\ tasks'[id].revealCount = tasks[id].revealCount
            /\ tasks'[id].optionVotes = tasks[id].optionVotes
            /\ tasks'[id].reveals = tasks[id].reveals
    ]_vars

\* ----------------------------------------------------------------- C11
\* C11: in the state a successful tick leaves, the phase stored for every
\* cached task is what the ledger's _currentPhase gives for the task's
\* cancelled and resolved flags, deliberationStart, deliberationDuration
\* and the time of the tick.
C11_SweptPhaseIsLedgerPhase ==
  [][\A i \in TickIds :
       (TickEnds(i) /\ pollLog'.outcome = "done")
         => \A id \in DOMAIN tasks' :
              tasks'[id].phase = _currentPhaseAt(tasks'[id], now')
    ]_vars

\* After a successful tick a cached task is in Reveal by the sweep alone:
\* the ledger has stored no phase change to Reveal for it.
C11_SweepMovedPhase ==
  /\ pollLog.outcome = "done"
  /\ ActiveTicks = {}
  /\ \E id \in DOMAIN tasks :
       /\ tasks[id].phase = Reveal
       /\ ~tasks[id].resolved /\ ~tasks[id].cancelled
       /\ _currentPhaseAt(tasks[id], now) = Reveal
       /\ ltasks[id].phase # Reveal

\* ----------------------------------------------------------------- C12
\* C12: for a task whose start marker is set and whose fields do not
\* change, the phase the clock computes at a later time is never earlier in
\* Open < Deliberation < Commit < Reveal < Resolved than the phase it
\* computes at an earlier time, in the relay's sweep and on the ledger.
C12_ClockPhaseNeverGoesBack ==
  [][now' > now =>
       /\ \A id \in DOMAIN tasks :
            tasks[id].deliberationStart # 0
              => SweepTaskAt(tasks[id], now').phase
                   >= SweepTaskAt(tasks[id], now).phase
       /\ \A id \in ExistingTasks :
            ltasks[id].deliberationStart # 0
              => _currentPhaseAt(ltasks[id], now')
                   >= _currentPhaseAt(ltasks[id], now)
    ]_vars

\* The clock has just taken a started, unfinished task from Reveal to
\* Resolved, in the cache and on the ledger.
C12_ClockReachedResolved ==
  \E id \in DOMAIN tasks :
    /\ tasks[id].deliberationStart # 0
    /\ ~tasks[id].resolved /\ ~tasks[id].cancelled
    /\ ~ltasks[id].resolved /\ ~ltasks[id].cancelled
    /\ SweepTaskAt(tasks[id], now - TimeStep).phase = Reveal
    /\ SweepTaskAt(tasks[id], now).phase = Resolved
    /\ _currentPhaseAt(ltasks[id], now - TimeStep) = Reveal
    /\ _currentPhaseAt(ltasks[id], now) = Resolved

\* ----------------------------------------------------------------- C13
\* A suspended handler of the route sends its response.
PostEnds(i) == posts[i].pc = "verify" /\ posts'[i].pc = "idle"
\* A response of the route goes out in this step.
PostAnswered == resp = NoResponse /\ resp'.route = PostRoute
\* The request fails structural validation: task id, content, signature
\* format or sender format.
StructurallyInvalid(req) == parseId(req.raw) = Null \/ BodyError(req) # "ok"
\* The signature is the sender's over (taskId, content).
SignedBySender(req) ==
  /\ req.signature.signer = toLowerCase(req.sender.text)
  /\ req.signature.message = <<parseId(req.raw), req.content.text>>
\* The sender is, case-insensitively, in the agent set the cache holds for
\* the task.
InAgentSet(id, sender) ==
  /\ id \in DOMAIN tasks
  /\ \E k \in 1 .. Len(tasks[id].agents) :
       toLowerCase(tasks[id].agents[k]) = toLowerCase(sender)

\* C13: a POST is answered with the rejection of the first stage that fails
\* in the order structural validation, task existence, rate limit,
\* signature, membership: a structurally invalid request gets 400 whether or
\* not its task exists, a structurally valid one for an unknown task gets
\* 404, and a membership rejection is sent only for a signature that
\* verifies.
C13_FirstFailingStageAnswers ==
  [][PostAnswered =>
       LET req == resp'.request
       IN IF StructurallyInvalid(req) THEN resp'.status = 400
          ELSE IF parseId(req.raw) \notin DOMAIN tasks THEN resp'.status = 404
          ELSE /\ resp'.status \in {429, 401, 403, 201}
               /\ resp'.status \in {403, 201} => SignedBySender(req)
    ]_vars

\* ----------------------------------------------------------------- C14
\* C14: when the handler of a structurally valid POST whose signature
\* verifies for its sender sends its response while the sender is not in
\* the task's agent set, the response is 403 "not a registered agent", not
\* 401, and the message store and its file are unchanged.
C14_NonMemberGets403 ==
  [][\A i \in PostIds :
       (/\ PostEnds(i)
        /\ SignedBySender(posts[i].req)
        /\ ~InAgentSet(posts[i].taskId, posts[i].req.sender.text))
         => /\ resp'.route = PostRoute
            /\ resp'.status = 403
            /\ messages' = messages
            /\ disk' = disk
    ]_vars

\* A correctly signed post of a non-member was answered 403.
C14_SignedNonMemberRejected ==
  /\ resp.route = PostRoute
  /\ resp.status = 403
  /\ SignedBySender(resp.request)
  /\ ~InAgentSet(parseId(resp.request.raw), resp.request.sender.text)

\* ----------------------------------------------------------------- C15
\* The lists of after are those of before with msg appended to its task's.
Appended(before, after, msg) ==
  /\ DOMAIN after = DOMAIN before \cup {msg.taskId}
  /\ \A id \in DOMAIN before \ {msg.taskId} : after[id] = before[id]
  /\ after[msg.taskId] =
       Append(IF msg.taskId \in DOMAIN before THEN before[msg.taskId]
              ELSE <<>>, msg)

\* C15: the message store changes only in the step in which a handler of
\* the route answers 201, and then by one appended message whose task is in
\* the cache, whose signature is the sender's over (taskId, content), whose
\* sender is in the task's agent set in that state, and whose sender field
\* is in lower case; a step that answers a POST with a rejection leaves the
\* store unchanged.
C15_StoredMessagePassedEveryStage ==
  [][/\ messages' # messages =>
          \E i \in PostIds :
            LET req == posts[i].req
                msg == resp'.body
            IN /\ PostEnds(i)
               /\ resp'.route = PostRoute
               /\ resp'.status = 201
               /\ Appended(messages, messages', msg)
               /\ msg.taskId = posts[i].taskId
               /\ msg.content = req.content.text
               /\ msg.taskId \in DOMAIN tasks
               /\ SignedBySender(req)
               /\ InAgentSet(msg.taskId, req.sender.text)
               /\ msg.sender \in {"a1", "a2"}
               /\ toLowerCase(req.sender.text) = msg.sender
     /\ (PostAnswered /\ resp'.status # 201) => messages' = messages
    ]_vars

\* ----------------------------------------------------------------- C16
\* The times at which posts of the sender passed the limiter, oldest first:
\* those of its stored messages and of its suspended handlers.  (In
\* SpecRate there is one task, every post that passes the limiter is
\* stored, and the clock stands still while a handler is suspended.)
PassTimes(sender) ==
  LET stored == IF 0 \in DOMAIN messages THEN messages[0] ELSE <<>>
      mine == SelectSeq(stored, LAMBDA m : m.sender = sender)
      waiting == {i \in PostIds : /\ posts[i].pc = "verify"
                                  /\ toLowerCase(posts[i].req.sender.text)
                                       = sender}
  IN [n \in 1 .. Len(mine) + Cardinality(waiting) |->
        IF n <= Len(mine) THEN mine[n].timestamp ELSE now * 1000]

\* The opening time of the window the first n of the times leave open: the
\* first time opens one, and so does each time 60 s or more after the
\* opening of the window before.  -1 with no times.
RECURSIVE WindowOf(_, _)
WindowOf(times, n) ==
  IF n = 0 THEN -1
  ELSE LET w == WindowOf(times, n - 1)
       IN IF w = -1 \/ times[n] >= w + 60000 THEN times[n] ELSE w

\* A post of the sender made now is to pass: no window is open, or the
\* open one has reached its reset time, or fewer than 20 posts passed in it.
ShouldPass(sender) ==
  LET times == PassTimes(sender)
      w == WindowOf(times, Len(times))
  IN \/ w = -1
     \/ now * 1000 >= w + 60000
     \/ Cardinality({n \in 1 .. Len(times) : times[n] >= w}) < 20

\* C16: a post that reaches the limiter passes when it is one of the first
\* 20 of its sender (in lower case) in the 60 s window the sender's first
\* post opened, or when it comes at or after the window's reset time and
\* opens a new one; the 21st and every later post in a window is answered
\* 429.
C16_WindowOfTwentyPosts ==
  [][/\ \A i \in PostIds :
          (resp = NoResponse /\ posts[i].pc = "idle" /\ posts'[i].pc = "verify")
            => ShouldPass(toLowerCase(posts'[i].req.sender.text))
     /\ (PostAnswered /\ resp'.status = 429)
          => ~ShouldPass(toLowerCase(resp'.request.sender.text))
    ]_vars

\* The 21st post of a window was answered 429 after 20 were stored, and the
\* sender had used its other spelling among them.
C16_TwentyFirstRejected ==
  /\ resp.route = PostRoute
  /\ resp.status = 429
  /\ 0 \in DOMAIN messages
  /\ Len(messages[0]) = 20
  /\ \A n \in 1 .. 20 : messages[0][n].timestamp = messages[0][1].timestamp
  /\ now * 1000 < messages[0][1].timestamp + 60000

\* ----------------------------------------------------------------- C17
\* The stored messages, as pairs of task and position.
StoredAt ==
  UNION {{<<id, n>> : n \in 1 .. Len(messages[id])} : id \in DOMAIN messages}

\* C17: for every sender and every interval of 60 s, at most 20 of the
\* sender's posts passed the limiter (in SpecRate: were stored with a time
\* in the interval).
C17_TwentyPerMinute ==
  \A p \in StoredAt :
    LET first == messages[p[1]][p[2]]
    IN Cardinality({q \in StoredAt :
                      /\ messages[q[1]][q[2]].sender = first.sender
                      /\ messages[q[1]][q[2]].timestamp >= first.timestamp
                      /\ messages[q[1]][q[2]].timestamp
                           < first.timestamp + 60000}) <= 20

\* ----------------------------------------------------------------- C18
\* The list the store holds for the task.
ListOf(ms, id) == IF id \in DOMAIN ms THEN ms[id] ELSE <<>>

\* C18: in every step no task's list is longer than 500 afterwards, every
\* list keeps the messages it had as a prefix in the same order, the
\* handler of a post to a task whose list holds 500 leaves the store as it
\* is, and a post answered 201 for a task whose list holds fewer is appended
\* to that list whatever the other lists hold.
C18_ListStopsAtCap ==
  [][/\ \A id \in DOMAIN messages' : Len(messages'[id]) <= 500
     /\ \A id \in DOMAIN messages :
          /\ id \in DOMAIN messages'
          /\ Len(messages'[id]) >= Len(messages[id])
          /\ SubSeq(messages'[id], 1, Len(messages[id])) = messages[id]
     /\ \A i \in PostIds :
          PostEnds(i) =>
            IF Len(ListOf(messages, posts[i].taskId)) >= 500
            THEN messages' = messages
            ELSE resp'.status = 201
                   => Appended(messages, messages', resp'.body)
    ]_vars

\* A post to task 0 was handled after its list reached 500, and task 1's
\* list took a message after that too.
C18_PostAtCapAndSiblingAppend ==
  /\ 0 \in DOMAIN messages /\ 1 \in DOMAIN messages
  /\ Len(messages[0]) = 500
  /\ resp.route = PostRoute
  /\ resp.status = 201
  /\ resp.body.taskId = 0
  /\ resp.body.timestamp > messages[0][500].timestamp
  /\ \E n \in 1 .. Len(messages[1]) :
       messages[1][n].timestamp > messages[0][500].timestamp

\* ----------------------------------------------------------------- C19
\* C19: a POST is answered 201 with the message only in a step that
\* appends that message to its task's list.
C19_SuccessOnlyIfStored ==
  [][(PostAnswered /\ resp'.status = 201)
       => Appended(messages, messages', resp'.body)]_vars

\* ----------------------------------------------------------------- C20
\* C20: in a tick that sees a current block above lastBlock, the sub-ranges
\* given to getLogs start at lastBlock + 1, each next one starts at the
\* block after the end of the one before, and the last one ends at the
\* current block: ascending, disjoint, and covering lastBlock + 1 ..
\* current exactly.
C20_SubRangesPartitionNewBlocks ==
  [][\A i \in TickIds :
       /\ (ticks[i].pc = "getBlockNumber" /\ ticks'[i].pc = "getLogs")
            => /\ ticks'[i].start = lastBlock + 1
               /\ ticks'[i].currentBlock = height
               /\ ticks'[i].currentBlock > lastBlock
       /\ (ticks[i].pc = "getLogs" /\ ticks'[i] # ticks[i] /\ ~TickEnds(i))
            => LET end == RangeEnd(ticks[i].start, ticks[i].currentBlock)
               IN /\ ticks[i].start <= end
                  /\ end < ticks[i].currentBlock
                  /\ ticks'[i].pc = "getLogs"
                  /\ ticks'[i].start = end + 1
                  /\ ticks'[i].currentBlock = ticks[i].currentBlock
       /\ (ticks[i].pc = "getLogs" /\ TickEnds(i) /\ pollLog'.outcome = "done")
            => /\ ticks[i].start
                    <= RangeEnd(ticks[i].start, ticks[i].currentBlock)
               /\ RangeEnd(ticks[i].start, ticks[i].currentBlock)
                    = ticks[i].currentBlock
    ]_vars

\* A tick is at its third sub-range.
C20_ThirdSubRange ==
  \E i \in TickIds :
    /\ ticks[i].pc = "getLogs"
    /\ ticks[i].start = lastBlock + 1 + 2 * (MAX_RANGE + 1)
    /\ ticks[i].start <= ticks[i].currentBlock

\* ----------------------------------------------------------------- C21
\* C21: every sub-range a tick asks getLogs for holds at most 100 blocks,
\* counting its first and its last block.
C21_SubRangeHoldsAtMostMaxRange ==
  \A i \in TickIds :
    ticks[i].pc = "getLogs"
      => RangeEnd(ticks[i].start, ticks[i].currentBlock) - ticks[i].start + 1
           <= 100

LogsProcessed(i) ==
  ticks[i].pc = "getLogs" /\ ticks'[i] # ticks[i] /\ ~RpcFailed

\* C23: whenever a tick processes a TaskStarted entry for a cached task
\* whose deliberationStart is already set, the entry leaves the task's
\* deliberationStart and phase as they were just before it.
C23_StartMarkerSetOnce ==
  [][\A i \in TickIds :
       LogsProcessed(i) =>
         LET logs == getLogs(ticks[i].start,
                             RangeEnd(ticks[i].start, ticks[i].currentBlock))
         IN \A k \in 1 .. Len(logs) :
              LET before == ProcessLogs(tasks, SubSeq(logs, 1, k - 1)).tasks
                  id == logs[k].taskId
              IN (/\ logs[k].eventName = "TaskStarted"
                  /\ id \in DOMAIN before
                  /\ before[id].deliberationStart # 0)
                   => LET after == processLog(before, logs[k])
                      IN /\ after[id].deliberationStart
                              = before[id].deliberationStart
                         /\ after[id].phase = before[id].phase
    ]_vars

\* ----------------------------------------------------------------- C25
\* The reveals list the cache holds for the task: empty without the task.
RevealsOf(ts, id) == IF id \in DOMAIN ts THEN ts[id].reveals ELSE <<>>

\* C25: a task cached by hydration has an empty reveals list whatever
\* revealCount and tallies it read; a step of a tick that processes logs
\* leaves in every reveals list only records the list held before and
\* records of RevealSubmitted entries of that batch for the same task,
\* agent and option; no other step changes a reveals list.
C25_RevealsComeFromEvents ==
  [][\A id \in DOMAIN tasks' :
       LET old == RevealsOf(tasks, id)
           new == tasks'[id].reveals
       IN IF startup.pc = "optionVotes" /\ tasks' # tasks
          THEN IF id = startup.id THEN new = <<>> ELSE new = old
          ELSE IF \E i \in TickIds : LogsProcessed(i)
          THEN \A n \in 1 .. Len(new) :
                 \/ \E m \in 1 .. Len(old) : old[m] = new[n]
                 \/ \E i \in TickIds :
                      /\ LogsProcessed(i)
                      /\ LET logs == getLogs(ticks[i].start,
                                       RangeEnd(ticks[i].start,
                                                ticks[i].currentBlock))
                         IN \E k \in 1 .. Len(logs) :
                              /\ logs[k].eventName = "RevealSubmitted"
                              /\ logs[k].taskId = id
                              /\ logs[k].agent = new[n].agent
                              /\ logs[k].optionIndex = new[n].optionIndex
          ELSE new = old
    ]_vars

\* Hydration cached a task whose reveals the ledger had counted: the tally
\* is there and the list is empty.
C25_HydratedWithTallyAndNoRecords ==
  \E id \in DOMAIN tasks :
    /\ tasks[id].revealCount > 0
    /\ SumVotes(tasks[id].optionVotes) > 0
    /\ tasks[id].reveals = <<>>

\* ----------------------------------------------------------------- C26
\* A route handler takes the step: it sends a response, or it is the POST
\* handler reaching await verifyMessage.
RouteStep ==
  \/ resp' # NoResponse
  \/ \E i \in PostIds : posts[i].pc = "idle" /\ posts'[i].pc = "verify"

\* C26: no step of a route handler (GET /health, GET /tasks, GET /tasks/:id,
\* GET /tasks/:id/messages, POST /tasks/:id/messages, answered with success
\* or with a rejection) changes the task cache: no task is added or removed
\* and no field of a task changes.
C26_RoutesLeaveTasksAlone ==
  [][RouteStep => tasks' = tasks]_vars

\* A POST was answered 201 for a cached task that has started and whose
\* stored phase is behind the clock.
C26_PostStoredForStartedTask ==
  /\ resp.route = PostRoute
  /\ resp.status = 201
  /\ resp.body.taskId \in DOMAIN tasks
  /\ tasks[resp.body.taskId].deliberationStart # 0
  /\ SweepTask(tasks[resp.body.taskId]) # tasks[resp.body.taskId]

\* ----------------------------------------------------------------- C27
\* The options of a task that hold its maximum vote count.
MaxHolders(id) ==
  LET opts == 0 .. (Len(ltasks[id].options) - 1) IN
  {i \in opts : \A j \in opts : optionVotes[id][j] <= optionVotes[id][i]}

LowestOf(S) == CHOOSE i \in S : \A j \in S : i <= j

\* This step is a successful resolve(id).
ResolveStep(id) ==
  ~ltasks[id].resolved /\ ltasks'[id].resolved /\ revealCount[id] > 0

\* C27: when resolve succeeds on a tally with at least one reveal, the
\* ledger's winningOption is the lowest-index option that holds the maximum
\* vote count and isTie is true exactly when two or more options hold it;
\* the TaskResolved entry the call logs carries these two values, and so
\* does the cached task once the relay has processed the log.
C27_ResolvePicksLowestMaximum ==
  [][\A id \in TaskIds :
       ResolveStep(id) =>
         LET winner == LowestOf(MaxHolders(id))
             tie == Cardinality(MaxHolders(id)) >= 2
             ev == chainLog'[Len(chainLog')]
             cached == ProcessLogs(<<>>, chainLog').tasks[id]
         IN /\ ltasks'[id].winningOption = winner
            /\ ltasks'[id].isTie = tie
            /\ ev.eventName = "TaskResolved" /\ ev.taskId = id
            /\ ev.winningOption = winner /\ ev.isTie = tie
            /\ cached.resolved
            /\ cached.winningOption = winner /\ cached.isTie = tie]_vars

\* A task resolved as a tie between its second and third options.
C27_TieBelowFirstOption ==
  \E id \in ExistingTasks :
    /\ ltasks[id].resolved
    /\ ltasks[id].isTie
    /\ ltasks[id].winningOption = 1
    /\ MaxHolders(id) = {1, 2}

\* ----------------------------------------------------------------- C28
\* The options that win a resolved task, and the agents who revealed one.
WinningOptions(id) ==
  IF ltasks[id].isTie THEN MaxHolders(id) ELSE {ltasks[id].winningOption}

Winners(id) ==
  {a \in Voters : revealed[id][a] /\ votes[id][a] \in WinningOptions(id)}

\* The task was closed by resolve.
ResolvedByVote(id) == ltasks[id].resolved /\ revealCount[id] > 0

\* What claimBounty answers each caller after resolve.
ClaimAnswers(id) ==
  \A a \in Voters :
    claimBountyError(id, a) =
      IF ~revealed[id][a] THEN "NotAgent"
      ELSE IF claimed[id][a] THEN "AlreadyClaimed"
      ELSE IF a \notin Winners(id) THEN "NotWinner"
      ELSE "ok"

\* This step is a successful claimBounty(id) by a.
ClaimStep(id, a) == ~claimed[id][a] /\ claimed'[id][a]

ClaimPays(id, a) ==
  LET share == ltasks[id].bounty \div Cardinality(Winners(id)) IN
  /\ ResolvedByVote(id)
  /\ a \in Winners(id)
  /\ balanceOf'[a] = balanceOf[a] + share
  /\ balanceOf'[Core] = balanceOf[Core] - share
  /\ \A b \in Accounts \ {a, Core} : balanceOf'[b] = balanceOf[b]

\* C28: after resolve, an agent who revealed a winning option (on a tie, any
\* option that holds the maximum count) can claim, and the claim pays that
\* agent bounty divided (integer division) by the number of such agents; a
\* claim is never undone, so each claims once: the second call is rejected
\* with AlreadyClaimed, an agent who revealed a losing option with NotWinner
\* and one who did not reveal with NotAgent.
C28_WinnersShareTheBounty ==
  /\ [](\A id \in ExistingTasks :
          ResolvedByVote(id) =>
            /\ ClaimAnswers(id)
            /\ eligibleCount[id] = Cardinality(Winners(id))
            /\ eligibleCount[id] > 0)
  /\ [][\A id \in TaskIds, a \in Voters :
          /\ ClaimStep(id, a) => ClaimPays(id, a)
          /\ claimed[id][a] => claimed'[id][a]]_vars

\* Two winners and a loser; one winner has claimed half the bounty.
C28_HalfTheBountyClaimed ==
  \E id \in ExistingTasks :
    /\ ResolvedByVote(id)
    /\ ~ltasks[id].isTie
    /\ Cardinality(Winners(id)) = 2
    /\ revealCount[id] = 3
    /\ \E a \in Winners(id) :
         claimed[id][a] /\ balanceOf[a] = ltasks[id].bounty \div 2

\* ----------------------------------------------------------------- C29
\* S + D of a started task: the end of its deliberation.
CommitOpens(id) ==
  ltasks[id].deliberationStart + ltasks[id].deliberationDuration

InCommitWindow(id) ==
  CommitOpens(id) <= now /\ now < CommitOpens(id) + 60

InRevealWindow(id) ==
  CommitOpens(id) + 60 <= now /\ now < CommitOpens(id) + 120

InResolveWindow(id) == now >= CommitOpens(id) + 120

Started(id) == id \in ExistingTasks /\ ltasks[id].deliberationStart # 0

\* Outside its window each call reverts with WrongPhase, whoever calls and
\* with whatever arguments; so does a second resolve.
GatedOutside(id) ==
  /\ ~InCommitWindow(id) =>
       \A a \in Voters : commitError(id, a) = "WrongPhase"
  /\ ~InRevealWindow(id) =>
       \A a \in Voters, s \in Salts :
         \A o \in 0 .. Len(ltasks[id].options) :
           revealError(id, a, o, s) = "WrongPhase"
  /\ (~InResolveWindow(id) \/ ltasks[id].resolved) =>
       resolveError(id) = "WrongPhase"

\* The positions of a task's entries of one kind in the event log.
EntriesOf(id, name) ==
  {k \in 1 .. Len(chainLog) :
     chainLog[k].taskId = id /\ chainLog[k].eventName = name}

CommitsThenRevealsThenResolve(id) ==
  /\ \A c \in EntriesOf(id, "CommitSubmitted"),
        r \in EntriesOf(id, "RevealSubmitted") : c < r
  /\ \A r \in EntriesOf(id, "RevealSubmitted"),
        z \in EntriesOf(id, "TaskResolved") : r < z
  /\ \A c \in EntriesOf(id, "CommitSubmitted"),
        z \in EntriesOf(id, "TaskResolved") : c < z
  /\ Cardinality(EntriesOf(id, "TaskResolved")) <= 1

\* C29: for a started task with S = deliberationStart and D =
\* deliberationDuration, a commit succeeds only at a time t with
\* S+D <= t < S+D+60, a reveal only with S+D+60 <= t < S+D+120, a resolve
\* only with t >= S+D+120 and only once; outside its window each call
\* reverts with WrongPhase; in the event log of every task all commits come
\* before all reveals, and these before the one resolution.
C29_CallsGatedByPhaseWindows ==
  /\ [](\A id \in TaskIds :
          Started(id) => GatedOutside(id) /\ CommitsThenRevealsThenResolve(id))
  /\ [][\A id \in TaskIds :
          /\ (\E a \in Voters : commits'[id][a] # commits[id][a])
               => Started(id) /\ InCommitWindow(id)
          /\ (\E a \in Voters : ~revealed[id][a] /\ revealed'[id][a])
               => Started(id) /\ InRevealWindow(id)
          /\ ResolveStep(id)
               => Started(id) /\ InResolveWindow(id)
          /\ ltasks[id].resolved => ltasks'[id].resolved]_vars

\* A task resolved a minute into its resolve window, with the three commits
\* and the three reveals in its log.
C29_ResolvedAfterFullVote ==
  \E id \in ExistingTasks :
    /\ Started(id)
    /\ now = CommitOpens(id) + 180
    /\ Cardinality(EntriesOf(id, "CommitSubmitted")) = 3
    /\ Cardinality(EntriesOf(id, "RevealSubmitted")) = 3
    /\ Cardinality(EntriesOf(id, "TaskResolved")) = 1

\* ----------------------------------------------------------------- C30
NoDuplicates(seq) ==
  \A i, j \in 1 .. Len(seq) : seq[i] = seq[j] => i = j

IsFull(id) == Len(taskAgents[id]) = ltasks[id].requiredAgents

ListWithinCapacity(id) ==
  /\ NoDuplicates(taskAgents[id])
  /\ Len(taskAgents[id]) <= ltasks[id].requiredAgents
  /\ \A a \in Voters : isAgent[id][a] <=> Includes(taskAgents[id], a)

StartsExactlyWhenFull(id) ==
  /\ ltasks[id].deliberationStart # 0 <=> IsFull(id)
  /\ ltasks[id].phase # Open <=> IsFull(id)

\* What joinTask answers each caller.
JoinAnswers(id) ==
  \A a \in Voters :
    joinTaskError(id, a) =
      IF ltasks[id].cancelled THEN "TaskIsCancelled"
      ELSE IF IsFull(id) THEN "WrongPhase"
      ELSE IF Includes(taskAgents[id], a) THEN "AlreadyJoined"
      ELSE "ok"

\* C30 as stated: for every task, the agent list has no duplicates and at
\* most requiredAgents entries; deliberationStart is nonzero and the phase
\* has left Open exactly when the list has requiredAgents entries; joinTask
\* reverts with AlreadyJoined, WrongPhase or TaskIsCancelled.
C30_EveryTaskStartsWhenFull ==
  \A id \in ExistingTasks :
    ListWithinCapacity(id) /\ StartsExactlyWhenFull(id) /\ JoinAnswers(id)

\* C30, amended: the list has no duplicates and at most requiredAgents
\* entries and joinTask answers as stated for every task; deliberationStart
\* is nonzero and the phase has left Open exactly when the list has
\* requiredAgents entries for every task that is not cancelled; a cancelled
\* task has fewer agents, deliberationStart zero and phase Resolved.
C30_UncancelledTaskStartsWhenFull ==
  \A id \in ExistingTasks :
    /\ ListWithinCapacity(id)
    /\ JoinAnswers(id)
    /\ IF ltasks[id].cancelled
       THEN /\ ~IsFull(id)
            /\ ltasks[id].deliberationStart = 0
            /\ ltasks[id].phase = Resolved
       ELSE StartsExactlyWhenFull(id)

\* Two of the three agents have joined: the task waits, Open.
C30_PartlyJoinedStaysOpen ==
  \E id \in ExistingTasks :
    /\ Len(taskAgents[id]) = 2
    /\ ltasks[id].requiredAgents = 3
    /\ ~ltasks[id].cancelled
    /\ ltasks[id].phase = Open
    /\ ltasks[id].deliberationStart = 0

\* ----------------------------------------------------------------- C31
OptionsOf(id) == 0 .. (Len(ltasks[id].options) - 1)

RECURSIVE SumOver(_, _)
SumOver(id, opts) ==
  IF opts = {} THEN 0
  ELSE LET o == CHOOSE x \in opts : TRUE
       IN optionVotes[id][o] + SumOver(id, opts \ {o})

\* The indexes and salts a caller may pass: the task's, one index beyond,
\* and a salt nobody committed with.
TriedIndexes(id) == 0 .. Len(ltasks[id].options)
TriedSalts == Salts \cup {"s2"}

\* What reveal answers each caller while the reveal window is open.
RevealAnswers(id) ==
  \A a \in Voters, s \in TriedSalts :
    \A o \in TriedIndexes(id) :
      revealError(id, a, o, s) =
        IF ~isAgent[id][a] THEN "NotAgent"
        ELSE IF revealed[id][a] THEN "AlreadyRevealed"
        ELSE IF commits[id][a] # keccak256(id, o, s) \/ o \notin OptionsOf(id)
          THEN "InvalidReveal"
        ELSE "ok"

CountsAgree(id) ==
  /\ revealCount[id] = SumOver(id, OptionsOf(id))
  /\ revealCount[id] = Cardinality({a \in Voters : revealed[id][a]})
  /\ \A o \in DOMAIN optionVotes[id] : o \notin OptionsOf(id) => optionVotes[id][o] = 0

\* This step is a successful reveal by a.
RevealStep(id, a) == ~revealed[id][a] /\ revealed'[id][a]

\* C31: a reveal is accepted only from a joined agent who has not revealed
\* before, whose stored commit is the hash of (taskId, optionIndex, salt),
\* and with optionIndex below the option count; a wrong hash or an index
\* beyond the options is answered InvalidReveal; in every state revealCount
\* equals the sum of optionVotes over the task's options and the number of
\* agents marked revealed.
C31_RevealsCountedOnce ==
  /\ [](\A id \in ExistingTasks :
          /\ CountsAgree(id)
          /\ SyncedTask(id).phase = Reveal => RevealAnswers(id))
  /\ [][\A id \in TaskIds, a \in Voters :
          /\ revealed[id][a] => revealed'[id][a]
          /\ RevealStep(id, a) =>
               /\ isAgent[id][a]
               /\ votes'[id][a] \in OptionsOf(id)
               /\ \E s \in Salts : commits[id][a] = keccak256(id, votes'[id][a], s)
               /\ revealCount'[id] = revealCount[id] + 1
               /\ optionVotes'[id] =
                    [optionVotes[id] EXCEPT ![votes'[id][a]] = @ + 1]]_vars

\* One agent has revealed while the other holds a commit to an index the
\* task does not have, in the reveal window.
C31_CommitBeyondOptionsUnrevealed ==
  \E id \in ExistingTasks :
    /\ SyncedTask(id).phase = Reveal
    /\ revealCount[id] = 1
    /\ \E a \in Voters, s \in Salts :
         /\ ~revealed[id][a]
         /\ commits[id][a] = keccak256(id, Len(ltasks[id].options), s)

\* ----------------------------------------------------------------- C32
\* What cancelTask answers each caller.
CancelAnswers(id) ==
  \A caller \in Voters \cup {Creator} :
    cancelTaskError(id, caller) =
      IF caller # ltasks[id].creator THEN "NotCreator"
      ELSE IF ltasks[id].deliberationStart # 0 THEN "WrongPhase"
      ELSE IF ltasks[id].cancelled THEN "WrongPhase"
      ELSE "ok"

\* This step is a successful cancelTask(id).
CancelStep(id) == ~ltasks[id].cancelled /\ ltasks'[id].cancelled

CancelRefunds(id) ==
  LET t == ltasks[id] IN
  /\ t.deliberationStart = 0
  /\ ltasks'[id] = [t EXCEPT !.cancelled = TRUE, !.phase = Resolved]
  /\ balanceOf'[t.creator] = balanceOf[t.creator] + t.bounty
  /\ balanceOf'[Core] = balanceOf[Core] - t.bounty
  /\ \A a \in Voters : balanceOf'[a] = balanceOf[a]
  /\ taskAgents'[id] = taskAgents[id]

\* C32: cancelTask succeeds only for the creator, while deliberationStart is
\* unset and the task is not cancelled; it then marks the task cancelled,
\* sets its phase to Resolved and returns the whole bounty to the creator,
\* with no agent or some agents joined; every other caller gets NotCreator,
\* and once deliberation has started or the task is cancelled the creator
\* gets WrongPhase: a started task is never cancelled and a cancelled task
\* stays cancelled and never starts.
C32_CancelOnlyBeforeStart ==
  /\ [](\A id \in ExistingTasks :
          /\ CancelAnswers(id)
          /\ ~(ltasks[id].cancelled /\ ltasks[id].deliberationStart # 0))
  /\ [][\A id \in TaskIds :
          /\ CancelStep(id) => CancelRefunds(id)
          /\ ltasks[id].cancelled => ltasks'[id] = ltasks[id]]_vars

\* A task cancelled after two of its three agents joined; the creator holds
\* the bounty again.
C32_CancelledAfterJoins ==
  \E id \in ExistingTasks :
    /\ ltasks[id].cancelled
    /\ ltasks[id].phase = Resolved
    /\ Len(taskAgents[id]) = 2
    /\ balanceOf[Creator] = CreatorFunds
    /\ balanceOf[Core] = 0

\* ----------------------------------------------------------------- C37
\* The task was closed by claimExpired.
Expired(id) == ltasks[id].resolved /\ revealCount[id] = 0

Claimants(id) == {a \in Voters : claimed[id][a]}

\* What has left the contract for a task, by each route.
RefundedByCancel(id) == IF ltasks[id].cancelled THEN ltasks[id].bounty ELSE 0
RefundedByExpiry(id) == IF Expired(id) THEN ltasks[id].bounty ELSE 0
PaidToClaimants(id) ==
  IF Claimants(id) = {} THEN 0
  ELSE Cardinality(Claimants(id))
         * (ltasks[id].bounty \div Cardinality(Winners(id)))

PaidOut(id) == RefundedByCancel(id) + RefundedByExpiry(id) + PaidToClaimants(id)

RECURSIVE SumOf(_, _)
SumOf(f, S) ==
  IF S = {} THEN 0
  ELSE LET x == CHOOSE y \in S : TRUE IN f[x] + SumOf(f, S \ {x})

Escrowed == [id \in ExistingTasks |-> ltasks[id].bounty - PaidOut(id)]

\* What this step refunds for each task: the bounty of a task that was
\* neither cancelled nor resolved and is closed by the step, else nothing.
RefundStep ==
  [id \in ExistingTasks |->
     IF /\ ~ltasks[id].cancelled /\ ~ltasks[id].resolved
        /\ ltasks'[id].cancelled \/ ltasks'[id].resolved
     THEN ltasks[id].bounty ELSE 0]

\* C37: for every task, what has been transferred out of the contract for
\* it (cancel refund, expired-claim refund and bounty claims together) is at
\* most its bounty, and the contract holds the rest; at most one of the
\* three routes has paid; a refund is paid once: a step that raises the
\* creator's balance raises it by the bounties of the tasks it closes, which
\* were neither cancelled nor resolved before.
C37_PayoutsWithinBounty ==
  /\ [](/\ \A id \in ExistingTasks :
             /\ PaidOut(id) <= ltasks[id].bounty
             /\ Cardinality({k \in 1 .. 3 :
                   <<RefundedByCancel(id), RefundedByExpiry(id),
                     PaidToClaimants(id)>>[k] > 0}) <= 1
        /\ balanceOf[Core] = SumOf(Escrowed, ExistingTasks)
        /\ balanceOf[Core] >= 0)
  /\ [][balanceOf'[Creator] > balanceOf[Creator]
          => balanceOf'[Creator] - balanceOf[Creator]
               = SumOf(RefundStep, ExistingTasks)]_vars

\* The creator has claimed the bounty of a task nobody revealed on.
C37_ExpiredBountyReturned ==
  \E id \in ExistingTasks :
    /\ Expired(id)
    /\ Len(taskAgents[id]) = 3
    /\ balanceOf[Creator] = CreatorFunds
    /\ balanceOf[Core] = 0

\* ----------------------------------------------------------------- C38
\* The caller passes the resolved and revealed checks of claimBounty.
PassesClaimChecks(id, a) == ltasks[id].resolved /\ revealed[id][a]

\* C38: in every state in which some agent passes the resolved and revealed
\* checks of claimBounty, eligibleCount of the task is at least 1, so the
\* division has a nonzero divisor: a task closed by resolve has an eligible
\* revealer, and a task closed by claimExpired has no revealer.
C38_DivisorIsPositive ==
  \A id \in ExistingTasks :
    /\ (\E a \in Voters : PassesClaimChecks(id, a)) => eligibleCount[id] >= 1
    /\ ResolvedByVote(id) => Winners(id) # {}
    /\ Expired(id) => \A a \in Voters : ~revealed[id][a]

\* A task resolved as a tie of all three options: each revealer passes the
\* checks and the divisor is 3.
C38_ThreeWayTieResolved ==
  \E id \in ExistingTasks :
    /\ ResolvedByVote(id)
    /\ ltasks[id].isTie
    /\ \A a \in Voters : PassesClaimChecks(id, a)
    /\ MaxHolders(id) = {0, 1, 2}
    /\ eligibleCount[id] = 3

\* ----------------------------------------------------------------- C39
\* The positions of the entries that close a task.
ClosingEntries(id) ==
  EntriesOf(id, "TaskResolved") \cup EntriesOf(id, "TaskCancelled")

\* The positions of the entries that must not follow them.
ProgressEntries(id) ==
  EntriesOf(id, "PhaseAdvanced") \cup EntriesOf(id, "AgentJoined")
    \cup EntriesOf(id, "RevealSubmitted")

EventsInPhaseOrder(id) ==
  /\ \A k, l \in EntriesOf(id, "PhaseAdvanced") :
       k < l => chainLog[k].phase < chainLog[l].phase
  /\ Cardinality(EntriesOf(id, "TaskStarted")) <= 1
  /\ \A z \in ClosingEntries(id), e \in ProgressEntries(id) : e < z

\* C39: over any sequence of calls the stored phase of a task never
\* decreases; the PhaseAdvanced entries logged for a task carry strictly
\* increasing phases; TaskStarted is logged at most once per task; no
\* PhaseAdvanced, AgentJoined or RevealSubmitted entry of a task follows its
\* TaskResolved or TaskCancelled entry.
C39_PhaseAndEventsInOrder ==
  /\ [](\A id \in TaskIds : EventsInPhaseOrder(id))
  /\ [][\A id \in TaskIds : ltasks'[id].phase >= ltasks[id].phase]_vars

\* A task whose log holds one PhaseAdvanced for each of the four later
\* phases, and then its TaskResolved.
C39_EveryPhaseAnnounced ==
  \E id \in ExistingTasks :
    /\ {chainLog[k].phase : k \in EntriesOf(id, "PhaseAdvanced")}
         = {Deliberation, Commit, Reveal, Resolved}
    /\ EntriesOf(id, "TaskResolved") # {}

\* ----------------------------------------------------------------- C34
\* getAllTasks and getTask return the cached task as stored, so what two
\* successive queries observe is the stored phase in two successive states.
\* C34: the stored phase of a cached task never moves backward in
\* Open < Deliberation < Commit < Reveal < Resolved from one state to the
\* next, also while a tick is suspended between two sub-range fetches and
\* whatever entries it processes.
C34_ObservedPhaseNeverGoesBack ==
  [][\A id \in DOMAIN tasks :
       id \in DOMAIN tasks' => tasks'[id].phase >= tasks[id].phase]_vars

\* ----------------------------------------------------------------- C40
\* C40: every task that is on the ledger when hydration reads taskCount is
\* cached in the end, also when one of its reads failed, in every run in
\* which startPoller gets to start the interval timer.
C40_StartupTasksGetCached ==
  \A id \in TaskIds :
    <>(startup.pc = "running")
      => ((startup.taskCount > id) ~> (id \in DOMAIN tasks))

\* ----------------------------------------------------------------- C33
\* The cached task holds what the ledger holds.
CacheAgrees(id) ==
  /\ id \in DOMAIN tasks
  /\ tasks[id].agents = taskAgents[id]
  /\ tasks[id].deliberationStart = ltasks[id].deliberationStart
  /\ tasks[id].revealCount = revealCount[id]
  /\ tasks[id].optionVotes =
       [k \in 1 .. Len(ltasks[id].options) |-> optionVotes[id][k - 1]]
  /\ tasks[id].resolved = ltasks[id].resolved
  /\ tasks[id].cancelled = ltasks[id].cancelled

\* C33: in every run in which no ledger call fails and the interval timer
\* gets started, whatever the ledger emitted while hydration was running or
\* before the initial lastBlock was read reaches the cache: from some time
\* on every task of the ledger is cached with the ledger's agents, start
\* marker, tallies and flags.
C33_StartupLosesNoEvent ==
  ([](failures = 0) /\ <>(startup.pc = "running"))
    => <>[](\A id \in ExistingTasks : CacheAgrees(id))

\* ----------------------------------------------------------------- C35
\* The times at which correctly signed posts of the sender passed the
\* limiter: the stored ones, then those of handlers suspended now.
OwnPassTimes(sender) ==
  LET stored == IF 0 \in DOMAIN messages THEN messages[0] ELSE <<>>
      mine == SelectSeq(stored, LAMBDA m : m.sender = sender)
      waiting == {i \in PostIds : /\ posts[i].pc = "verify"
                                  /\ SignedBySender(posts[i].req)
                                  /\ toLowerCase(posts[i].req.sender.text)
                                       = sender}
  IN [n \in 1 .. Len(mine) + Cardinality(waiting) |->
        IF n <= Len(mine) THEN mine[n].timestamp ELSE now * 1000]

\* What the limiter answers the sender now in the history that holds the
\* sender's correctly signed posts only.
OwnShouldPass(sender) ==
  LET times == OwnPassTimes(sender)
      w == WindowOf(times, Len(times))
  IN \/ w = -1
     \/ now * 1000 >= w + 60000
     \/ Cardinality({n \in 1 .. Len(times) : times[n] >= w}) < 20

\* C35: posts that name a sender and carry a signature that does not
\* verify leave the outcomes of the sender's correctly signed posts as they
\* are without them: such a post is answered 429 only when the sender's own
\* correctly signed posts have used up the window, and goes on to the
\* signature check otherwise.
C35_ForgedPostsLeaveSenderAlone ==
  [][/\ \A i \in PostIds :
          (/\ resp = NoResponse
           /\ posts[i].pc = "idle" /\ posts'[i].pc = "verify"
           /\ SignedBySender(posts'[i].req))
            => OwnShouldPass(toLowerCase(posts'[i].req.sender.text))
     /\ (/\ PostAnswered
         /\ resp'.status = 429
         /\ SignedBySender(resp'.request))
          => ~OwnShouldPass(toLowerCase(resp'.request.sender.text))
    ]_vars

\* ----------------------------------------------------------------- C36
\* The limiter lets the post of handler i through in this step: it is
\* suspended at the signature check.
PassesLimiter(i) == posts[i].pc = "idle" /\ posts'[i].pc = "verify"
\* The limiter turns a post away in this step.
TurnedAway == PostAnswered /\ resp'.status = 429

\* The bucket after one more post of the sender at the time it is now.
CountedOnce(sender) ==
  IF sender \notin DOMAIN rateBuckets
       \/ now * 1000 >= rateBuckets[sender].resetAt
  THEN rateBuckets'[sender] = [count |-> 1, resetAt |-> now * 1000 + 60000]
  ELSE rateBuckets'[sender] =
         [rateBuckets[sender] EXCEPT !.count = @ + 1]

\* C36: with posts to one task suspended together at the signature check,
\* no list is ever longer than 500, every post answered 201 appends exactly
\* one message (its own) to its task's list in the step that answers it,
\* every post that reaches the limiter adds exactly one to its sender's
\* bucket (or opens a window with count 1), and no other step changes a
\* bucket.
C36_PostsInFlightEachAppendOnce ==
  [][/\ \A id \in DOMAIN messages' : Len(messages'[id]) <= 500
     /\ \A i \in PostIds :
          (PostEnds(i) /\ resp'.status = 201)
            => Appended(messages, messages', resp'.body)
     /\ \A i \in PostIds :
          PassesLimiter(i)
            => CountedOnce(toLowerCase(posts'[i].req.sender.text))
     /\ TurnedAway => CountedOnce(toLowerCase(resp'.request.sender.text))
     /\ (~TurnedAway /\ \A i \in PostIds : ~PassesLimiter(i))
          => rateBuckets' = rateBuckets
    ]_vars
====
